---------------------------- MODULE Spec2Model ----------------------------
(***************************************************************************)
(* Salesforce pipeline automation: the template analyzer, the generated    *)
(* merge program (app.py) and the column mapper, as state machines.        *)
(*                                                                         *)
(* Text is modelled as a sequence of one-character strings so that the     *)
(* substring tests, case folding, splitting and parsing of the code are    *)
(* computed, not assumed.                                                  *)
(***************************************************************************)
EXTENDS Integers, Sequences, FiniteSets, TLC

---------------------------------------------------------------------------
(* Bounds of the model                                                     *)

\* most data rows in a raw export (rows after the fixed 14-row preamble)
MaxRawRows == 3

\* most header cells in the template's header row
MaxTemplateCols == 6

---------------------------------------------------------------------------
(* Python str operations *)

\* printable ASCII in code-point order, then the copyright sign U+00A9,
\* written "(c)"; the grave accent is written "(grave)"
Alphabet ==
  << " ", "!", "\"", "#", "$", "%", "&", "'", "(", ")", "*", "+", ",", "-", ".",
     "/", "0", "1", "2", "3", "4", "5", "6", "7", "8", "9", ":", ";", "<", "=",
     ">", "?", "@", "A", "B", "C", "D", "E", "F", "G", "H", "I", "J", "K", "L",
     "M", "N", "O", "P", "Q", "R", "S", "T", "U", "V", "W", "X", "Y", "Z", "[",
     "\\", "]", "^", "_", "(grave)", "a", "b", "c", "d", "e", "f", "g", "h", "i", "j",
     "k", "l", "m", "n", "o", "p", "q", "r", "s", "t", "u", "v", "w", "x", "y",
     "z", "{", "|", "}", "~", "(c)" >>

Chars == { Alphabet[i] : i \in 1..Len(Alphabet) }

\* the rank of a character in code-point order
Ord == [ c \in Chars |-> CHOOSE i \in 1..Len(Alphabet) : Alphabet[i] = c ]

Digits == { "0", "1", "2", "3", "4", "5", "6", "7", "8", "9" }

DigitVal == [ c \in Digits |-> Ord[c] - Ord["0"] ]

\* str.lower() on one character: 'A'..'Z' move to 'a'..'z'
LowerChar ==
  [ c \in Chars |-> IF Ord[c] >= Ord["A"] /\ Ord[c] <= Ord["Z"]
                      THEN Alphabet[Ord[c] + (Ord["a"] - Ord["A"])]
                      ELSE c ]

\* str.lower()
lower(s) == [ i \in 1..Len(s) |-> LowerChar[s[i]] ]

\* Python "t in s" for two strings
Contains(s, t) ==
  \E i \in 1..(Len(s) - Len(t) + 1) : SubSeq(s, i, i + Len(t) - 1) = t

\* any(k in s for k in ks)
ContainsAny(s, ks) == \E k \in ks : Contains(s, k)

\* str.strip(): leading and trailing blanks removed
RECURSIVE lstrip(_)
lstrip(s) == IF s # <<>> /\ Head(s) = " " THEN lstrip(Tail(s)) ELSE s

RECURSIVE rstrip(_)
rstrip(s) ==
  IF s # <<>> /\ s[Len(s)] = " " THEN rstrip(SubSeq(s, 1, Len(s) - 1)) ELSE s

strip(s) == rstrip(lstrip(s))

\* str.isdigit(): non-empty and every character a digit
isdigit(s) == s # <<>> /\ \A i \in 1..Len(s) : s[i] \in Digits

\* int(s) for a string of digits
RECURSIVE IntOfDigits(_)
IntOfDigits(s) ==
  IF s = <<>> THEN 0
  ELSE 10 * IntOfDigits(SubSeq(s, 1, Len(s) - 1)) + DigitVal[s[Len(s)]]

\* str(n) for a natural number
RECURSIVE DigitsOfNat(_)
DigitsOfNat(n) ==
  IF n < 10 THEN << Alphabet[Ord["0"] + n] >>
  ELSE Append(DigitsOfNat(n \div 10), Alphabet[Ord["0"] + (n % 10)])

\* str.replace(c, '') for a set of single characters
RECURSIVE RemoveChars(_, _)
RemoveChars(s, cs) ==
  IF s = <<>> THEN <<>>
  ELSE IF Head(s) \in cs THEN RemoveChars(Tail(s), cs)
  ELSE << Head(s) >> \o RemoveChars(Tail(s), cs)

\* str.split(): the maximal runs of non-blank characters
RECURSIVE split(_)
split(s) ==
  LET t == lstrip(s)
      n == IF \E i \in 1..Len(t) : t[i] = " "
             THEN (CHOOSE i \in 1..Len(t) :
                     t[i] = " " /\ \A k \in 1..(i - 1) : t[k] # " ") - 1
             ELSE Len(t)
  IN  IF t = <<>> THEN <<>>
      ELSE << SubSeq(t, 1, n) >> \o split(SubSeq(t, n + 1, Len(t)))

\* Python's order on str: lexicographic by code point
RECURSIVE StrLess(_, _)
StrLess(a, b) ==
  IF b = <<>> THEN FALSE
  ELSE IF a = <<>> THEN TRUE
  ELSE IF Head(a) = Head(b) THEN StrLess(Tail(a), Tail(b))
  ELSE Ord[Head(a)] < Ord[Head(b)]

\* re.search(pattern, s, re.IGNORECASE) for a pattern whose only
\* metacharacter is '.', which matches any character
RegexMatchesAt(s, pat, i) ==
  \A k \in 1..Len(pat) :
     pat[k] = "." \/ LowerChar[pat[k]] = LowerChar[s[i + k - 1]]

RegexSearch(s, pat) ==
  \E i \in 1..(Len(s) - Len(pat) + 1) : RegexMatchesAt(s, pat, i)

Max(a, b) == IF a >= b THEN a ELSE b
Min(a, b) == IF a <= b THEN a ELSE b

---------------------------------------------------------------------------
(* Cell values.  Every value is a record of the same shape:                *)
(*   str  : a Python str, text in .s                                       *)
(*   num  : a float, its (whole) value in .n                               *)
(*   nan  : the float NaN that pandas uses for a missing value             *)
(*   none : Python None, an empty worksheet cell                           *)
(*   date : a datetime.date, parsed from the text .s or the number .n      *)

StrV(s) == [k |-> "str", s |-> s, n |-> 0]
NumV(n) == [k |-> "num", s |-> <<>>, n |-> n]
NaN == [k |-> "nan", s |-> <<>>, n |-> 0]
None == [k |-> "none", s |-> <<>>, n |-> 0]
DateV(v) == [k |-> "date", s |-> v.s, n |-> v.n]

\* pd.isna(val)
isna(v) == v.k \in {"nan", "none"}

\* Series.astype(str) on one value: a float prints with ".0", NaN as "nan"
astype_str(v) ==
  IF v.k = "str" THEN v.s
  ELSE IF v.k = "num" THEN DigitsOfNat(v.n) \o <<".","0">>
  ELSE IF v.k = "nan" THEN <<"n","a","n">>
  ELSE <<"N","o","n","e">>

\* a string pd.to_numeric / float() accepts; the model's values are whole
\* and unsigned, every other text is not a number
IsNumberText(s) == isdigit(s)

\* pd.to_numeric(x, errors='coerce') on one value
to_numeric(v) ==
  IF v.k = "num" THEN v
  ELSE IF v.k = "str" /\ IsNumberText(v.s) THEN NumV(IntOfDigits(v.s))
  ELSE NaN

\* float(val) raises ValueError or TypeError on anything but a number
FloatFails(v) == ~(v.k = "num" \/ (v.k = "str" /\ IsNumberText(v.s)))

\* a text that pd.to_datetime reads as a date: digits/digits/digits
IsDateText(s) ==
  \E i, j \in 1..Len(s) :
     /\ i < j
     /\ s[i] = "/" /\ s[j] = "/"
     /\ isdigit(SubSeq(s, 1, i - 1))
     /\ isdigit(SubSeq(s, i + 1, j - 1))
     /\ isdigit(SubSeq(s, j + 1, Len(s)))

\* parse_date(val): the date, or val itself when pd.to_datetime raises
parse_date(v) ==
  IF v.k = "str" /\ IsDateText(v.s) THEN DateV(v)
  ELSE IF v.k = "num" THEN DateV(v)
  ELSE v

\* a worksheet cell: value, number format and wrap-text alignment
Cell(v, fmt, wrap) == [v |-> v, fmt |-> fmt, wrap |-> wrap]
EmptyCell == Cell(None, "General", FALSE)
TextCell(s) == Cell(StrV(s), "General", FALSE)

\* a file that does not exist
NoFile == [exists |-> FALSE]

---------------------------------------------------------------------------
(* Configuration (config.py) and worksheets                                *)

\* Config.DATA_START_ROW
DATA_START_ROW == 5

\* the header row of the template: Config.DATA_START_ROW - 1
header_row == DATA_START_ROW - 1

\* the columns extract_template_headers looks at: range(1, 50)
HeaderScanLast == 49

\* a run of this many empty header cells ends the header scan
EmptyRunStop == 3

\* the rows and columns of a worksheet that the model keeps; a cell outside
\* them does not exist and reads as None
GridRows == header_row..(DATA_START_ROW + MaxRawRows + 1)
GridCols == 1..(MaxTemplateCols + 1)

\* sheet.cell(row=r, column=c) of a worksheet held as [row -> [col -> cell]]
CellAt(sheet, r, c) ==
  IF r \in DOMAIN sheet /\ c \in DOMAIN sheet[r] THEN sheet[r][c]
  ELSE EmptyCell

\* sheet.max_row: the last row that holds a cell with a value
max_row(sheet) ==
  LET used == { r \in DOMAIN sheet :
                  \E c \in DOMAIN sheet[r] : sheet[r][c].v.k # "none" }
  IN  IF used = {} THEN 1 ELSE CHOOSE r \in used : \A q \in used : q <= r

---------------------------------------------------------------------------
(* TemplateAnalyzer (template_analyzer.py)                                 *)

\* extract_template_headers: the non-empty cells of the header row with
\* their Excel column positions, up to the third consecutive empty cell
RECURSIVE ScanHeaders(_, _, _)
ScanHeaders(sheet, col, empty_count) ==
  IF col > HeaderScanLast THEN <<>>
  ELSE LET cell_value == CellAt(sheet, header_row, col).v
           text == strip(astype_str(cell_value))
       IN  IF cell_value.k = "none" \/ text = <<>>
             THEN IF empty_count + 1 >= EmptyRunStop THEN <<>>
                  ELSE ScanHeaders(sheet, col + 1, empty_count + 1)
             ELSE << [name |-> text, excel_position |-> col] >>
                    \o ScanHeaders(sheet, col + 1, 0)

\* a variant that ends the scan at the second consecutive empty cell
extract_template_headers_short_run(sheet) ==
  LET all == ScanHeaders(sheet, 1, 0)
      stop(c) == \E k \in 1..(c - 2) :
                    /\ CellAt(sheet, header_row, k).v.k = "none"
                    /\ CellAt(sheet, header_row, k + 1).v.k = "none"
  IN  SelectSeq(all, LAMBDA h : ~stop(h.excel_position))

extract_template_headers(sheet) == ScanHeaders(sheet, 1, 0)

month_names ==
  { <<"j","a","n">>, <<"f","e","b">>, <<"m","a","r">>, <<"a","p","r">>, <<"m","a","y">>, <<"j","u","n">>,
    <<"j","u","l">>, <<"a","u","g">>, <<"s","e","p">>, <<"o","c","t">>, <<"n","o","v">>, <<"d","e","c">> }

\* the years a calendar header has to contain
calendar_years == { <<"2","0","2","5">>, <<"2","0","2","6">>, <<"2","0","2","7">>, <<"2","0","2","8">>, <<"2","0","2","9">>, <<"2","0","3","0">> }

\* the earliest year of a calendar column
BaselineYear == 2025

\* determine_column_type: the data type of a column, from its header
determine_column_type(header) ==
  LET header_lower == lower(header)
  IN  IF Contains(header_lower, <<"p","o","s","i","t","i","o","n","i","n","g">>) THEN "text"
      ELSE IF Contains(header_lower, <<"g","o","v","w","i","n">>) THEN "text"
      ELSE IF Contains(header_lower, <<"r","f","p">>) /\ Contains(header_lower, <<"a","w","a","r","d">>)
        THEN "date"
      ELSE IF ContainsAny(header_lower,
                          { <<"v","a","l","u","e">>, <<"c","e","i","l","i","n","g">>, <<"c","o","n","t","r","a","c","t">>, <<"p","r","i","c","e">>, <<"c","o","s","t">>,
                            <<"a","m","o","u","n","t">> })
                /\ Contains(header, <<"$">>)
        THEN "currency"
      ELSE IF ContainsAny(header_lower, { <<"d","a","t","e">>, <<"d","e","a","d","l","i","n","e">>, <<"d","u","e">> })
        THEN "date"
      ELSE IF ContainsAny(header_lower,
                          { <<"w","i","n">>, <<"p","r","o","b","a","b","i","l","i","t","y">>, <<"p","e","r","c","e","n","t">>, <<"%">> })
        THEN "percentage"
      ELSE IF ContainsAny(header_lower,
                          { <<"o","p","p","o","r","t","u","n","i","t","y">>, <<"d","e","s","c","r","i","p","t","i","o","n">>, <<"n","o","t","e","s">>, <<"n","a","m","e">> })
        THEN "text_wrap"
      ELSE "text"

\* the month + year test of identify_input_vs_calendar_columns
is_calendar(header_name) ==
  LET header_lower == strip(lower(header_name))
      words == split(header_lower)
  IN  /\ ContainsAny(header_lower, month_names)
      /\ ContainsAny(header_lower, calendar_years)
      /\ Len(words) = 2
      /\ words[1] \in month_names
      /\ isdigit(words[2])
      /\ IntOfDigits(words[2]) >= BaselineYear

\* identify_input_vs_calendar_columns: the two lists, each in header order
input_columns_of(headers) ==
  LET inputs == SelectSeq(headers, LAMBDA h : ~is_calendar(h.name))
  IN  [ i \in 1..Len(inputs) |->
          [index |-> inputs[i].excel_position, name |-> inputs[i].name,
           type |-> determine_column_type(inputs[i].name)] ]

calendar_columns_of(headers) ==
  LET cals == SelectSeq(headers, LAMBDA h : is_calendar(h.name))
  IN  [ i \in 1..Len(cals) |->
          [index |-> cals[i].excel_position, name |-> cals[i].name,
           type |-> "calendar"] ]

\* the sample values smart_column_mapping looks at for one raw column: the
\* non-empty cells of that column in the first three sample rows, stripped
sample_values_of(sample_data, raw_idx) ==
  LET rows == SubSeq(sample_data, 1, Min(3, Len(sample_data)))
      vals == [ i \in 1..Len(rows) |->
                  IF raw_idx < Len(rows[i]) THEN rows[i][raw_idx + 1]
                  ELSE <<>> ]
      kept == SelectSeq(vals, LAMBDA v : v # <<>>)
  IN  [ i \in 1..Len(kept) |-> strip(kept[i]) ]

\* 1. header name similarity
name_score(template_lower, raw_header_lower) ==
  IF Contains(raw_header_lower, template_lower)
       \/ Contains(template_lower, raw_header_lower)
    THEN 10 ELSE 0

\* 2. specific keyword matching: the first keyword group that both names hit
keyword_score(template_lower, raw_header_lower) ==
  LET both(k) == Contains(template_lower, k) /\ Contains(raw_header_lower, k)
  IN  IF both(<<"p","o","s","i","t","i","o","n","i","n","g">>) THEN 20
      ELSE IF both(<<"g","o","v","w","i","n">>) THEN 20
      ELSE IF both(<<"c","a","p","t","u","r","e">>) THEN 15
      ELSE IF both(<<"o","p","p","o","r","t","u","n","i","t","y">>) THEN 15
      ELSE IF (Contains(template_lower, <<"s","f">>)
                 \/ Contains(template_lower, <<"s","a","l","e","s","f","o","r","c","e">>))
              /\ (Contains(raw_header_lower, <<"s","a","l","e","s","f","o","r","c","e">>)
                    \/ Contains(raw_header_lower, <<"s","f">>)) THEN 20
      ELSE IF both(<<"a","w","a","r","d">>) THEN 15
      ELSE IF both(<<"c","e","i","l","i","n","g">>) THEN 15
      ELSE IF both(<<"s","t","a","g","e">>) THEN 15
      ELSE 0

\* 3. data content analysis on the sample values of the raw column
content_score(template_lower, sample_values) ==
  LET any(P(_)) == \E i \in 1..Len(sample_values) : P(sample_values[i])
  IN  IF sample_values = <<>> THEN 0
      ELSE IF Contains(template_lower, <<"p","o","s","i","t","i","o","n","i","n","g">>) THEN
             (IF any(LAMBDA v : \/ Contains(lower(v), <<"s","u","b">>)
                                \/ Contains(lower(v), <<"c","a","p","t","u","r","e">>)
                                \/ Contains(lower(v), <<"q","u","a","l","i","f","i","c","a","t","i","o","n">>))
                THEN 30 ELSE 0)
      ELSE IF Contains(template_lower, <<"g","o","v","w","i","n">>) THEN
             (IF any(LAMBDA v : isdigit(v) /\ Len(v) >= 5) THEN 30 ELSE 0)
      ELSE IF Contains(template_lower, <<"a","w","a","r","d">>)
                \/ Contains(template_lower, <<"r","f","p">>) THEN
             (IF any(LAMBDA v : /\ Contains(v, <<"/">>)
                                /\ \E i \in 1..Len(v) : v[i] \in Digits)
                THEN 25 ELSE 0)
      ELSE IF Contains(template_lower, <<"c","e","i","l","i","n","g">>)
                \/ Contains(template_lower, <<"v","a","l","u","e">>) THEN
             (IF any(LAMBDA v : isdigit(RemoveChars(v, {",", "$"})))
                THEN 20 ELSE 0)
      ELSE 0

\* the score of one raw column for one template column
column_score(template_name, raw_headers, sample_data, raw_idx) ==
  LET template_lower == strip(lower(template_name))
      raw_header_lower == strip(lower(raw_headers[raw_idx + 1]))
  IN  name_score(template_lower, raw_header_lower)
        + keyword_score(template_lower, raw_header_lower)
        + content_score(template_lower,
                        sample_values_of(sample_data, raw_idx))

\* the raw columns with a non-blank header, by 0-based index
scored_columns(raw_headers) ==
  { i \in 0..(Len(raw_headers) - 1) : strip(raw_headers[i + 1]) # <<>> }

\* a variant that accepts the best raw column whatever its score is
best_match_index_any_score(template_name, raw_headers, sample_data) ==
  LET cand == scored_columns(raw_headers)
  IN  IF cand = {} THEN -1
      ELSE CHOOSE i \in cand :
             \A k \in cand :
                LET si == column_score(template_name, raw_headers,
                                       sample_data, i)
                    sk == column_score(template_name, raw_headers,
                                       sample_data, k)
                IN  sk < si \/ (sk = si /\ i <= k)

\* the best match of one template column: the first raw column with the
\* highest score above 0, or -1 when no raw column scores above 0
best_match_index(template_name, raw_headers, sample_data) ==
  LET cand == { i \in scored_columns(raw_headers) :
                  column_score(template_name, raw_headers, sample_data, i)
                    > 0 }
  IN  IF cand = {} THEN -1
      ELSE CHOOSE i \in cand :
             \A k \in cand :
                LET si == column_score(template_name, raw_headers,
                                       sample_data, i)
                    sk == column_score(template_name, raw_headers,
                                       sample_data, k)
                IN  sk < si \/ (sk = si /\ i <= k)

\* smart_column_mapping: template column name -> chosen raw column; a
\* template column without a match has no entry
smart_column_mapping(template_columns, raw_data_info) ==
  LET raw_headers == raw_data_info.headers
      sample_data == raw_data_info.sample_data
      names == { template_columns[i].name : i \in 1..Len(template_columns) }
      mapped == { nm \in names :
                    best_match_index(nm, raw_headers, sample_data) # -1 }
  IN  [ nm \in mapped |->
          LET b == best_match_index(nm, raw_headers, sample_data)
          IN  [raw_index |-> b, raw_header |-> raw_headers[b + 1],
               score |-> column_score(nm, raw_headers, sample_data, b)] ]

\* the template columns smart_column_mapping prints "No mapping found for",
\* in template order
unmapped_report(template_columns, raw_data_info) ==
  LET names == [ i \in 1..Len(template_columns) |-> template_columns[i].name ]
  IN  SelectSeq(names,
                LAMBDA nm : best_match_index(nm, raw_data_info.headers,
                                             raw_data_info.sample_data) = -1)

\* a variant in which the raw columns taken by an earlier call stay taken
second_mapping_keeping_claims(first, template_columns, raw_data_info) ==
  LET taken == { first[nm].raw_index : nm \in DOMAIN first }
      h == raw_data_info.headers
      left == [ i \in 1..Len(h) |-> IF (i - 1) \in taken THEN <<>> ELSE h[i] ]
  IN  smart_column_mapping(template_columns,
                           [raw_data_info EXCEPT !.headers = left])

\* a further call of smart_column_mapping after a call that returned first:
\* template_to_raw_mapping starts empty again and nothing of the earlier
\* call is kept on the analyzer
second_mapping(first, template_columns, raw_data_info) ==
  smart_column_mapping(template_columns, raw_data_info)

---------------------------------------------------------------------------
(* generate_app_py_content: the parameters of the generated merge program  *)

\* no program could be generated
NoApp == [generated |-> FALSE]

\* the input columns that have a mapping, in template order
mapped_columns(input_columns, column_mapping) ==
  SelectSeq(input_columns, LAMBDA c : c.name \in DOMAIN column_mapping)

\* expected_columns: the raw index of every mapped input column
expected_columns_of(input_columns, column_mapping) ==
  LET m == mapped_columns(input_columns, column_mapping)
  IN  [ i \in 1..Len(m) |-> column_mapping[m[i].name].raw_index ]

\* the names given to the selected raw columns (df_raw.columns = [...])
column_names_of(input_columns, column_mapping) ==
  LET m == mapped_columns(input_columns, column_mapping)
  IN  [ i \in 1..Len(m) |-> m[i].name ]

\* the generated pd.to_numeric lines: one per input column of a numeric type
data_processing_of(input_columns) ==
  LET p == SelectSeq(input_columns,
                     LAMBDA c : c.type \in {"currency", "percentage",
                                            "number"})
  IN  [ i \in 1..Len(p) |-> [name |-> p[i].name, type |-> p[i].type] ]

\* the generated "elif j == ..." branches: one per template column of a
\* formatted type, at j = Excel position + 1
cell_formatting_of(all_template_columns) ==
  LET f == SelectSeq(all_template_columns,
                     LAMBDA c : c.type \in {"currency", "date", "number",
                                            "percentage"})
  IN  [ i \in 1..Len(f) |-> [j |-> f[i].index + 1, type |-> f[i].type] ]

\* the generated "if j == ..." wrap-text checks
text_wrap_of(all_template_columns) ==
  { all_template_columns[i].index + 1 :
      i \in { k \in 1..Len(all_template_columns) :
                all_template_columns[k].type = "text_wrap" } }

\* column_mapping is None (column_mapping.exists = FALSE) or a dict
NoMapping == [exists |-> FALSE]

generate_app_py_content(input_columns, calendar_columns, column_mapping) ==
  IF ~column_mapping.exists \/ DOMAIN column_mapping.map = {} THEN NoApp
  ELSE IF expected_columns_of(input_columns, column_mapping.map) = <<>>
    THEN NoApp
  ELSE
    [generated |-> TRUE,
     expected_columns |->
       expected_columns_of(input_columns, column_mapping.map),
     column_names |-> column_names_of(input_columns, column_mapping.map),
     data_processing |-> data_processing_of(input_columns),
     cell_formatting |->
       cell_formatting_of(input_columns \o calendar_columns),
     text_wrap |-> text_wrap_of(input_columns \o calendar_columns),
     total_template_columns |-> Len(input_columns) + Len(calendar_columns)]

\* analyze_and_update, steps 1 to 5: the program generated from a template
\* and the sample raw file; NoApp when a step fails
analyzed_app(template, raw_data_info) ==
  LET headers == extract_template_headers(template.cells)
      input_columns == input_columns_of(headers)
      calendar_columns == calendar_columns_of(headers)
      column_mapping ==
        IF ~raw_data_info.exists THEN NoMapping
        ELSE [exists |-> TRUE,
              map |-> smart_column_mapping(input_columns, raw_data_info)]
  IN  IF headers = <<>> \/ input_columns = <<>> THEN NoApp
      ELSE generate_app_py_content(input_columns, calendar_columns,
                                   column_mapping)

\* no backup copy was written
NoBackups == [app_py |-> NoApp, template |-> NoFile]

\* backup_current_app_py: copies app.py into the backup directory; when the
\* copy cannot be written the exception is caught, a warning is printed and
\* the backups stay as they were
backup_current_app_py(saved, current, copied) ==
  IF copied THEN [saved EXCEPT !.app_py = current] ELSE saved

---------------------------------------------------------------------------
(* The generated merge program: process_and_merge_files (app.py)           *)

\* df_raw.iloc[14:]: the data rows start at row 14 (0-indexed)
RawDataOffset == 14

\* raw_values: every cell as stripped text, None as ""
raw_values(file) ==
  [ r \in 1..Len(file.rows) |->
      [ c \in 1..Len(file.rows[r]) |->
          IF file.rows[r][c].k = "none" THEN <<>>
          ELSE strip(astype_str(file.rows[r][c])) ] ]

\* the number of columns of the raw sheet
raw_width(file) == IF file.rows = <<>> THEN 0 ELSE Len(file.rows[1])

\* len(df_raw.columns) after column 0 was dropped
df_raw_columns(file) == Max(raw_width(file) - 1, 0)

\* the column check: some expected index is not below len(df_raw.columns)
missing_columns(app, file) ==
  \E i \in 1..Len(app.expected_columns) :
     app.expected_columns[i] >= df_raw_columns(file)

\* df_raw[expected_columns] raises KeyError for label 0, which was dropped
select_raises(app) ==
  \E i \in 1..Len(app.expected_columns) : app.expected_columns[i] = 0

\* df_raw['name'] raises KeyError when no selected column has that name
processing_raises(app) ==
  \E i \in 1..Len(app.data_processing) :
     \A k \in 1..Len(app.column_names) :
        app.column_names[k] # app.data_processing[i].name

\* df.columns[1] raises IndexError when only one column was selected
second_column_raises(app) == Len(app.column_names) < 2

\* df_raw after iloc[14:], the selection of expected_columns and the
\* renaming: one sequence of values per data row, one value per column
df_selected(app, file) ==
  LET vals == raw_values(file)
      data == SubSeq(vals, RawDataOffset + 1, Len(vals))
  IN  [ r \in 1..Len(data) |->
          [ c \in 1..Len(app.expected_columns) |->
              StrV(data[r][app.expected_columns[c] + 1]) ] ]

\* the type a generated pd.to_numeric line gives one column, or "none"
processing_type(app, c) ==
  IF \E i \in 1..Len(app.data_processing) :
        app.data_processing[i].name = app.column_names[c]
    THEN (LET i == CHOOSE i \in 1..Len(app.data_processing) :
                     app.data_processing[i].name = app.column_names[c]
          IN  app.data_processing[i].type)
    ELSE "none"

\* one generated data-processing line applied to one value
coerce_value(type, v) ==
  IF type = "currency" THEN to_numeric(StrV(RemoveChars(v.s, {"$", ","})))
  ELSE IF type \in {"percentage", "number"} THEN to_numeric(v)
  ELSE v

\* the auto-generated data processing
df_coerced(app, rows) ==
  [ r \in 1..Len(rows) |->
      [ c \in 1..Len(rows[r]) |->
          coerce_value(processing_type(app, c), rows[r][c]) ] ]

\* df_raw.dropna(how='all') and df.dropna(subset=[df.columns[1]])
df_dropna(rows) ==
  SelectSeq(rows,
            LAMBDA row : /\ \E c \in 1..Len(row) : ~isna(row[c])
                         /\ ~isna(row[2]))

\* the two export notices, used as one case-insensitive regular expression
EXCLUSION_KEYWORDS ==
  { <<"C","o","n","f","i","d","e","n","t","i","a","l"," ","I","n","f","o","r","m","a","t","i","o","n"," ","-"," ","D","o"," ","N","o","t"," ","D","i","s","t","r","i","b","u","t","e">>,
    <<"C","o","p","y","r","i","g","h","t"," ","(c)"," ","2","0","0","0","-","2","0","2","5"," ","s","a","l","e","s","f","o","r","c","e",".","c","o","m",","," ","i","n","c","."," ","A","l","l"," ","r","i","g","h","t","s"," ","r","e","s","e","r","v","e","d",".">> }

\* str.contains('|'.join(EXCLUSION_KEYWORDS), case=False)
is_excluded_text(s) == \E kw \in EXCLUSION_KEYWORDS : RegexSearch(s, kw)

\* a variant that looks for a notice in the first column only
df_excluded_first_column(rows) ==
  SelectSeq(rows, LAMBDA row : ~is_excluded_text(astype_str(row[1])))

\* rows with a notice in the first or the second column are dropped
df_excluded(rows) ==
  SelectSeq(rows,
            LAMBDA row : /\ ~is_excluded_text(astype_str(row[1]))
                         /\ ~is_excluded_text(astype_str(row[2])))

\* the rows left after cleaning and filtering, before the Total handling
df_filtered(app, file) ==
  df_excluded(df_dropna(df_coerced(app, df_selected(app, file))))

\* temp_mgr_lower of a row
temp_mgr_lower(row) == lower(strip(astype_str(row[1])))

is_total_row(row) == temp_mgr_lower(row) = <<"t","o","t","a","l">>

total_df(rows) == SelectSeq(rows, is_total_row)

main_df(rows) == SelectSeq(rows, LAMBDA row : ~is_total_row(row))

\* count_row_mask: the second column matches ^\d+$
is_count_row(row) == isdigit(astype_str(row[2]))

\* a variant that takes the digits of the last count row
folded_total_df_last_count(rows) ==
  LET t == total_df(rows)
      m == main_df(rows)
      counts == SelectSeq(m, is_count_row)
  IN  IF t # <<>> /\ counts # <<>>
        THEN << [t[1] EXCEPT ![2] = counts[Len(counts)][2]] >> \o Tail(t)
        ELSE t

\* stray total count handling, on (total_df, main_df)
folded_total_df(rows) ==
  LET t == total_df(rows)
      m == main_df(rows)
      counts == SelectSeq(m, is_count_row)
  IN  IF t # <<>> /\ counts # <<>>
        THEN << [t[1] EXCEPT ![2] = counts[1][2]] >> \o Tail(t)
        ELSE t

folded_main_df(rows) ==
  LET t == total_df(rows)
      m == main_df(rows)
  IN  IF t # <<>> /\ \E i \in 1..Len(m) : is_count_row(m[i])
        THEN SelectSeq(m, LAMBDA row : ~is_count_row(row))
        ELSE m

\* has_mgr_mask
has_mgr(row) == temp_mgr_lower(row) # <<>> /\ temp_mgr_lower(row) # <<"n","a","n">>

\* the order sort_values puts two values of the first column in
ValueLess(a, b) ==
  IF a.k = "num" /\ b.k = "num" THEN a.n < b.n ELSE StrLess(a.s, b.s)

\* the arrangements of rows in ascending order of the first column;
\* sort_values uses quicksort, which may put equal keys in any order
SortedArrangements(rows) ==
  LET n == Len(rows)
      perms == { p \in [1..n -> 1..n] : \A i, k \in 1..n : i # k => p[i] # p[k] }
      sorted(p) == \A i \in 1..(n - 1) : ~ValueLess(rows[p[i + 1]][1],
                                                    rows[p[i]][1])
  IN  { [ i \in 1..n |-> rows[p[i]] ] : p \in { q \in perms : sorted(q) } }

\* a variant that puts the rows without an owner first
df_final_unassigned_first(rows, sorted_with_mgr) ==
  SelectSeq(folded_main_df(rows), LAMBDA row : ~has_mgr(row))
    \o sorted_with_mgr
    \o folded_total_df(rows)

\* the rows that go to the worksheet, for one arrangement of the sorted part
df_final(rows, sorted_with_mgr) ==
  sorted_with_mgr
    \o SelectSeq(folded_main_df(rows), LAMBDA row : ~has_mgr(row))
    \o folded_total_df(rows)

df_with_mgr(rows) == SelectSeq(folded_main_df(rows), has_mgr)

---------------------------------------------------------------------------
(* The raw header locator: analyze_raw_data_sample (template_analyzer.py) *)

\* iter_rows(min_row=1, max_row=20): the rows the locator reads
SampleWindow == 20

\* range(10, len(raw_values)): the first row index the search looks at
HeaderSearchStart == 10

\* matches >= 3
MinIndicatorMatches == 3

\* raw_values[13], the fallback header row, and its data start row 14
FallbackHeaderRow == 13
FallbackDataStart == 14

\* data_start_row + 5: the number of sample rows kept
SampleRowCount == 5

NoInfo == [exists |-> FALSE]

\* raw_values of the locator: the first 20 sheet rows, every cell as
\* stripped text and None as ""; iter_rows yields empty cells for the rows
\* the sheet does not have
sample_raw_values(file) ==
  [ r \in 1..SampleWindow |->
      [ c \in 1..raw_width(file) |->
          IF r > Len(file.rows) THEN <<>>
          ELSE IF file.rows[r][c].k = "none" THEN <<>>
          ELSE strip(astype_str(file.rows[r][c])) ] ]

\* " ".join(cells)
RECURSIVE join_cells(_)
join_cells(cells) ==
  IF cells = <<>> THEN <<>>
  ELSE IF Len(cells) = 1 THEN cells[1]
  ELSE cells[1] \o << " " >> \o join_cells(Tail(cells))

\* row_text: the non-blank cells of a row, lower-cased and joined
row_text(row) ==
  LET kept == SelectSeq(row, LAMBDA cell : cell # <<>> /\ strip(cell) # <<>>)
  IN  join_cells([ i \in 1..Len(kept) |-> lower(kept[i]) ])

indicators ==
  { <<"c","a","p","t","u","r","e">>, <<"o","p","p","o","r","t","u","n","i","t","y">>, <<"s","a","l","e","s","f","o","r","c","e">>, <<"s","t","a","g","e">>, <<"p","o","s","i","t","i","o","n","i","n","g">>,
    <<"g","o","v","w","i","n">> }

\* matches: the number of indicators found in the text of the row
indicator_matches(row) ==
  Cardinality({ ind \in indicators : Contains(row_text(row), ind) })

\* a variant that starts the search at the first row of the sheet
located_header_row_from_top(values) ==
  LET hits == { i \in 0..(Len(values) - 1) :
                  indicator_matches(values[i + 1]) >= MinIndicatorMatches }
  IN  IF hits = {} THEN -1
      ELSE CHOOSE i \in hits : \A k \in hits : i <= k

\* the 0-indexed row the search loop breaks at, -1 when it finds none
located_header_row(values) ==
  LET hits == { i \in HeaderSearchStart..(Len(values) - 1) :
                  indicator_matches(values[i + 1]) >= MinIndicatorMatches }
  IN  IF hits = {} THEN -1
      ELSE CHOOSE i \in hits : \A k \in hits : i <= k

\* what analyze_raw_data_sample returns for the latest raw file
analyze_raw_data_sample(file) ==
  IF ~file.exists THEN NoInfo
  ELSE
    LET values == sample_raw_values(file)
        found == located_header_row(values)
        header_row_data ==
          IF found # -1 THEN values[found + 1]
          ELSE IF Len(values) > FallbackHeaderRow
            THEN values[FallbackHeaderRow + 1]
          ELSE <<>>
        data_start_row == IF found # -1 THEN found + 1 ELSE FallbackDataStart
        last == Min(data_start_row + SampleRowCount, Len(values))
    IN  IF header_row_data = <<>> THEN NoInfo
        ELSE [exists |-> TRUE,
              headers |-> header_row_data,
              sample_data |->
                [ k \in 1..(last - data_start_row) |->
                    values[data_start_row + k] ],
              data_start_row |-> data_start_row]

---------------------------------------------------------------------------
(* Clearing the old data and writing the new rows                          *)

\* the first cell of the row contains "total" in any letter case
is_old_total_row(sheet, r) ==
  LET val == CellAt(sheet, r, 1).v
  IN  val.k = "str" /\ Contains(lower(val.s), <<"t","o","t","a","l">>)

\* end_row: the row before the first old total row, else sheet.max_row
end_row_of(sheet) ==
  LET scanned == DATA_START_ROW..max_row(sheet)
      hits == { r \in scanned : is_old_total_row(sheet, r) }
  IN  IF hits = {} THEN max_row(sheet)
      ELSE (CHOOSE r \in hits : \A q \in hits : r <= q) - 1

\* the columns the clear loop visits: range(2, total_template_columns + 2)
cleared_columns(app) == 2..(app.total_template_columns + 1)

\* "Clear Old Data": the value of every visited cell becomes None
cleared_sheet(app, sheet) ==
  [ r \in DOMAIN sheet |->
      [ c \in DOMAIN sheet[r] |->
          IF /\ r \in DATA_START_ROW..end_row_of(sheet)
             /\ c \in cleared_columns(app)
            THEN [sheet[r][c] EXCEPT !.v = None]
            ELSE sheet[r][c] ] ]

\* the type of the generated "elif j == ..." branch taken for column j,
\* "none" when no branch names j
formatting_type(app, j) ==
  IF \E i \in 1..Len(app.cell_formatting) : app.cell_formatting[i].j = j
    THEN (LET i == CHOOSE i \in 1..Len(app.cell_formatting) :
                     /\ app.cell_formatting[i].j = j
                     /\ \A k \in 1..(i - 1) : app.cell_formatting[k].j # j
          IN  app.cell_formatting[i].type)
    ELSE "none"

\* the cell after one value was written to it at column j
written_cell(app, cell, j, val) ==
  LET type == formatting_type(app, j)
      valued ==
        IF isna(val) THEN [cell EXCEPT !.v = None]
        ELSE IF type = "currency" THEN
               (IF FloatFails(val) THEN [cell EXCEPT !.v = val]
                ELSE [cell EXCEPT !.v = to_numeric(val),
                                  !.fmt = "$#,##0"])
        ELSE IF type = "date" THEN
               [cell EXCEPT !.v = parse_date(val), !.fmt = "mm/dd/yyyy"]
        ELSE IF type \in {"number", "percentage"} THEN
               (IF FloatFails(val) THEN [cell EXCEPT !.v = val]
                ELSE [cell EXCEPT !.v = to_numeric(val), !.fmt = "0"])
        ELSE [cell EXCEPT !.v = val]
  IN  IF j \in app.text_wrap THEN [valued EXCEPT !.wrap = TRUE] ELSE valued

\* "Write New Data": row k of df goes to sheet row DATA_START_ROW + k - 1,
\* its c-th value to column c + 1
written_sheet(app, sheet, rows) ==
  [ r \in DOMAIN sheet |->
      [ c \in DOMAIN sheet[r] |->
          LET k == r - DATA_START_ROW + 1
          IN  IF k \in 1..Len(rows) /\ (c - 1) \in 1..Len(rows[k])
                THEN written_cell(app, sheet[r][c], c, rows[k][c - 1])
                ELSE sheet[r][c] ] ]

(* the mail poll: scripts/fetch.py and config.py *)

\* Config.AUTHORIZED_EMAILS, in the order of the list
AUTHORIZED_EMAILS ==
  << <<"J","o","s","e","p","h",".","F","i","n","d","l","e","y","@","m","a","g",".","u","s">>, <<"R","o","h","a","n","a","n","a","n","d","7","2","7","2","@","g","m","a","i","l",".","c","o","m">>,
     <<"r","o","h","a","n",".","a","n","a","n","d","@","m","a","g",".","u","s">>, <<"d","a","v","i","d",".","s","c","h","u","l","t","z","@","m","a","g",".","u","s">>, <<"d","e","n","i","s","e",".","k","o","p","e","l","@","m","a","g",".","u","s">> >>

\* a variant that accepts every address an authorized address occurs in
is_authorized_user_by_search(email_address) ==
  \E i \in 1..Len(AUTHORIZED_EMAILS) :
     Contains(lower(email_address), lower(AUTHORIZED_EMAILS[i]))

\* Config.is_authorized_user:
\* email_address.lower() in [email.lower() for email in AUTHORIZED_EMAILS]
is_authorized_user(email_address) ==
  \E i \in 1..Len(AUTHORIZED_EMAILS) :
     lower(email_address) = lower(AUTHORIZED_EMAILS[i])

\* the first position of character c in s, 0 when it does not occur
FirstIndexOf(s, c) ==
  IF \E i \in 1..Len(s) : s[i] = c
    THEN CHOOSE i \in 1..Len(s) :
           s[i] = c /\ \A j \in 1..(i - 1) : s[j] # c
    ELSE 0

\* email.utils.parseaddr(header)[1] for the two forms "Name <address>" and
\* "address": the text between the angle brackets, or the whole header
parseaddr(header) ==
  LET open == FirstIndexOf(header, "<")
      close == FirstIndexOf(header, ">")
  IN  IF open > 0 /\ close > open
        THEN strip(SubSeq(header, open + 1, close - 1))
        ELSE strip(header)

\* str.startswith
startswith(s, t) == Len(s) >= Len(t) /\ SubSeq(s, 1, Len(t)) = t

\* re.sub(r'<[^>]+>', '', s): every "<", one or more characters other than
\* ">", then ">" is removed, leftmost first
RECURSIVE remove_tags(_)
remove_tags(s) ==
  IF s = <<>> THEN <<>>
  ELSE LET close == FirstIndexOf(s, ">")
       IN  IF Head(s) = "<" /\ close >= 3
             THEN remove_tags(SubSeq(s, close + 1, Len(s)))
             ELSE << Head(s) >> \o remove_tags(Tail(s))

\* re.sub(r'\s+', ' ', s): every run of blanks becomes one blank
RECURSIVE normalize_whitespace(_)
normalize_whitespace(s) ==
  IF s = <<>> THEN <<>>
  ELSE IF Head(s) = " " /\ Len(s) >= 2 /\ s[2] = " "
    THEN normalize_whitespace(Tail(s))
  ELSE << Head(s) >> \o normalize_whitespace(Tail(s))

\* a user message shorter than this is a help request
ShortMessage == 10

\* parse_email_body_for_commands: the body is lowered and cleaned, cut at
\* the earliest separator pattern (where the quoted bot message starts), and
\* searched for a command: "HERE", "ADJUST_COLUMNS", "HELP" or "None"
parse_email_body_for_commands(body_text) ==
  LET separator_patterns ==
        { <<"_","_","_","_","_","_","_","_","_","_","_","_","_","_","_","_","_","_","_","_","_","_","_","_","_","_","_","_","_","_","_","_">>,
          <<"f","r","o","m",":"," ","m","a","g","p","i","p","e","l","i","n","e","m","a","n","a","g","e","r","@","g","m","a","i","l",".","c","o","m">>,
          <<"f","r","o","m",":","m","a","g","p","i","p","e","l","i","n","e","m","a","n","a","g","e","r","@","g","m","a","i","l",".","c","o","m">>, <<"s","e","n","t",":">>, <<"h","i"," ","t","h","e","r","e">>,
          <<"i"," ","s","e","e"," ","y","o","u"," ","w","a","n","t"," ","t","o"," ","a","d","j","u","s","t">>, <<"h","e","l","l","o",",">>, <<"i","'","m"," ","h","e","r","e"," ","t","o"," ","h","e","l","p">>,
          <<"i","'","m"," ","s","e","n","d","i","n","g"," ","y","o","u">>, <<"m","a","g"," ","p","i","p","e","l","i","n","e">>, <<"a","u","t","o","m","a","t","e","d"," ","r","e","s","p","o","n","s","e">> }
      \* str.find as a 0-based position, -1 when t does not occur in s
      find(s, t) ==
        IF Contains(s, t)
          THEN (CHOOSE i \in 1..(Len(s) - Len(t) + 1) :
                  /\ SubSeq(s, i, i + Len(t) - 1) = t
                  /\ \A j \in 1..(i - 1) : SubSeq(s, j, j + Len(t) - 1) # t)
               - 1
          ELSE -1
      body_lower ==
        normalize_whitespace(remove_tags(strip(lower(body_text))))
      positions == { find(body_lower, p) : p \in separator_patterns }
                     \ { -1 }
      earliest == IF positions = {} THEN Len(body_lower)
                  ELSE CHOOSE p \in positions : \A q \in positions : p <= q
      user_message ==
        strip(normalize_whitespace(strip(SubSeq(body_lower, 1, earliest))))
  IN  IF body_text = <<>> THEN "None"
      ELSE IF startswith(user_message, <<"h","e","r","e">>) THEN "HERE"
      ELSE IF ContainsAny(user_message,
                          { <<"c","h","a","n","g","e"," ","f","o","r","m","a","t">>, <<"a","d","j","u","s","t"," ","c","o","l","u","m","n">>,
                            <<"a","d","j","u","s","t"," ","f","o","r","m","a","t">>, <<"m","o","d","i","f","y"," ","c","o","l","u","m","n">> })
        THEN "ADJUST_COLUMNS"
      ELSE IF \/ Len(user_message) < ShortMessage
              \/ Contains(user_message, <<"c","o","n","f","i","d","e","n","t","i","a","l","i","t","y"," ","n","o","t","i","c","e">>)
              \/ Contains(user_message, <<"s","t","a","r","t"," ","c","o","n","v","e","r","s","a","t","i","o","n">>)
        THEN "HELP"
      ELSE "None"

\* is_thread_continuation: a reply header, or a "Re:" subject of the bot's
\* conversation
is_thread_continuation(msg) ==
  \/ msg.in_reply_to
  \/ /\ startswith(lower(strip(msg.subject)), <<"r","e",":">>)
     /\ Contains(lower(strip(msg.subject)), <<"i","n","t","e","r","a","c","t"," ","w","i","t","h"," ","t","h","e"," ","m","a","g"," ","b","o","t">>)

\* all_email_ids: the results of mail.search(None, '(UNSEEN FROM "addr")'),
\* appended address by address in the order of AUTHORIZED_EMAILS, from the
\* k-th address on; one search gives the ids, ascending, of the unseen
\* messages whose From header contains the address, letter case ignored
RECURSIVE all_email_ids(_, _)
all_email_ids(mailbox, k) ==
  IF k > Len(AUTHORIZED_EMAILS) THEN <<>>
  ELSE SelectSeq([ i \in 1..Len(mailbox) |-> i ],
                 LAMBDA i : /\ ~mailbox[i].seen
                            /\ Contains(lower(mailbox[i].from_header),
                                        lower(AUTHORIZED_EMAILS[k])))
         \o all_email_ids(mailbox, k + 1)

\* the message carries a file whose name ends with .xlsx or .xls
has_excel_attachment(msg) ==
  LET endswith(s, t) ==
        Len(s) >= Len(t) /\ SubSeq(s, Len(s) - Len(t) + 1, Len(s)) = t
  IN  /\ msg.attachment.present
      /\ \/ endswith(lower(msg.attachment.filename), <<".","x","l","s","x">>)
         \/ endswith(lower(msg.attachment.filename), <<".","x","l","s">>)

\* the parameters analyze_template_and_update_app is defined with, and the
\* arguments the poll calls it with
AnalyzerParameters == 0
AnalyzerArguments == 1

\* what a poll returns when it has nothing to report
NoResult == [action |-> "None"]

\* the template update of a "Here" message: the attachment is saved,
\* replace_template backs the template up and copies the attachment over it,
\* then analyze_template_and_update_app is called; names holds the two
\* action names of the branch
update_template(msg, sender, names, disk, written, copied) ==
  IF ~has_excel_attachment(msg)
    THEN [disk EXCEPT !.result =
            [action |-> names.failed, sender |-> sender,
             detail |-> "No attachment found"]]
  ELSE IF ~written
    THEN [disk EXCEPT !.result =
            [action |-> names.failed, sender |-> sender,
             detail |-> "Error saving template"]]
  ELSE
    LET replaced ==
          [disk EXCEPT
             !.backups = IF disk.template.exists
                           THEN [disk.backups EXCEPT
                                   !.template = disk.template]
                           ELSE disk.backups,
             !.template = msg.attachment.workbook]
        new_app ==
          analyzed_app(replaced.template,
                       analyze_raw_data_sample(replaced.rawFile))
    IN  \* a call with the wrong number of arguments raises TypeError
        IF AnalyzerArguments # AnalyzerParameters
          THEN [replaced EXCEPT !.result =
                  [action |-> names.failed, sender |-> sender,
                   detail |-> "TypeError"]]
        ELSE IF new_app.generated
          THEN [replaced EXCEPT
                  !.backups = backup_current_app_py(replaced.backups,
                                                    replaced.app, copied),
                  !.app = new_app,
                  !.result = [action |-> names.updated, sender |-> sender,
                              detail |-> "new_template"]]
        ELSE [replaced EXCEPT !.result =
                [action |-> names.failed, sender |-> sender,
                 detail |-> "Failed to update app.py"]]

\* the pipeline file of a message: the Excel attachment is saved as the
\* latest input file; ok is the action name of the branch, none what the
\* branch returns without an attachment
save_pipeline_file(msg, sender, ok, none, disk, written) ==
  IF ~has_excel_attachment(msg)
    THEN [disk EXCEPT !.result = none]
  ELSE IF ~written
    THEN disk
  ELSE [disk EXCEPT
          !.rawFile = msg.attachment.workbook,
          !.result = [action |-> ok, sender |-> sender,
                      detail |-> "pipeline_file"]]

\* download_latest_attachment: one poll of the inbox. disk holds the
\* mailbox and the files the poll works on and, as result, what the poll
\* returns; connected: the IMAP
\* session works; written: the attachment can be saved; copied: the backup
\* of app.py can be written
download_latest_attachment(disk, connected, written, copied) ==
  LET ids == all_email_ids(disk.inbox, 1)
      \* latest_email_id = all_email_ids[-1]
      id == IF ids = <<>> THEN 0 ELSE ids[Len(ids)]
  IN  IF ~connected \/ id = 0 THEN disk
      ELSE
        LET msg == disk.inbox[id]
            fetched == [disk EXCEPT !.inbox[id].seen = TRUE]
            sender == parseaddr(msg.from_header)
            subject == strip(msg.subject)
            is_thread == is_thread_continuation(msg)
            command == parse_email_body_for_commands(strip(msg.body))
            reply(action) ==
              [action |-> action, sender |-> sender, detail |-> "subject"]
        IN  IF ~is_authorized_user(sender) THEN fetched
            ELSE IF lower(subject) = <<"s","t","a","r","t"," ","c","o","n","v","e","r","s","a","t","i","o","n">>
              THEN [fetched EXCEPT !.result = reply("START_CONVERSATION")]
            ELSE IF is_thread
              THEN IF command = "ADJUST_COLUMNS"
                     THEN [fetched EXCEPT
                             !.result = reply("THREAD_ADJUST_COLUMNS")]
                   ELSE IF command = "HERE"
                     THEN update_template(
                            msg, sender,
                            [updated |-> "THREAD_TEMPLATE_UPDATED",
                             failed |-> "THREAD_TEMPLATE_UPDATE_FAILED"],
                            fetched, written, copied)
                   ELSE save_pipeline_file(
                          msg, sender, "THREAD_NORMAL_PROCESSING",
                          reply("THREAD_UNCLEAR"), fetched, written)
            ELSE IF lower(subject) = <<"c","h","a","n","g","e"," ","f","o","r","m","a","t">>
              THEN [fetched EXCEPT !.result = reply("ADJUST_COLUMNS")]
            ELSE IF lower(subject) = <<"h","e","r","e">>
              THEN update_template(
                     msg, sender,
                     [updated |-> "TEMPLATE_UPDATED",
                      failed |-> "TEMPLATE_UPDATE_FAILED"],
                     fetched, written, copied)
            ELSE save_pipeline_file(msg, sender, "NORMAL_PROCESSING",
                                    NoResult, fetched, written)
---------------------------------------------------------------------------
(* The files the model runs on                                             *)

\* a worksheet from its header row (texts by column, <<>> for a blank cell)
\* and the rows below it (values by column)
MkSheet(hdr, body) ==
  [ r \in GridRows |->
      [ c \in GridCols |->
          IF r = header_row
            THEN (IF c <= Len(hdr) /\ hdr[c] # <<>> THEN TextCell(hdr[c])
                  ELSE EmptyCell)
          ELSE IF r - header_row <= Len(body) /\ c <= Len(body[r - header_row])
            THEN Cell(body[r - header_row][c], "General", FALSE)
          ELSE EmptyCell ] ]

\* header rows of templates: the data columns from column B on, then the
\* calendar column ...
HdrPlain ==
  << <<>>, <<"C","a","p","t","u","r","e"," ","M","a","n","a","g","e","r">>, <<"O","p","p","o","r","t","u","n","i","t","y"," ","N","a","m","e">>, <<"C","e","i","l","i","n","g"," ","V","a","l","u","e"," ","(","$",")">>,
     <<"R","F","P"," ","A","w","a","r","d">>, <<"J","u","n"," ","2","0","2","5">> >>

\* ... with one blank cell inside the header row ...
HdrGap ==
  << <<>>, <<"C","a","p","t","u","r","e"," ","M","a","n","a","g","e","r">>, <<"O","p","p","o","r","t","u","n","i","t","y"," ","N","a","m","e">>, <<>>,
     <<"C","e","i","l","i","n","g"," ","V","a","l","u","e"," ","(","$",")">>, <<"J","u","n"," ","2","0","2","5">> >>

\* ... with the first header in column A ...
HdrColumnA ==
  << <<"C","a","p","t","u","r","e"," ","M","a","n","a","g","e","r">>, <<"O","p","p","o","r","t","u","n","i","t","y"," ","N","a","m","e">>, <<"C","e","i","l","i","n","g"," ","V","a","l","u","e"," ","(","$",")">>,
     <<"J","u","n"," ","2","0","2","5">> >>

\* ... with a column no raw header matches ...
HdrUnmatched ==
  << <<>>, <<"C","a","p","t","u","r","e"," ","M","a","n","a","g","e","r">>, <<"O","p","p","o","r","t","u","n","i","t","y"," ","N","a","m","e">>, <<"N","o","t","e","s">>, <<"R","F","P"," ","A","w","a","r","d">>,
     <<"J","u","n"," ","2","0","2","5">> >>

\* ... with a currency column as the second data column ...
HdrCurrencySecond ==
  << <<>>, <<"C","a","p","t","u","r","e"," ","M","a","n","a","g","e","r">>, <<"C","e","i","l","i","n","g"," ","V","a","l","u","e"," ","(","$",")">>, <<"O","p","p","o","r","t","u","n","i","t","y"," ","N","a","m","e">>,
     <<"J","u","n"," ","2","0","2","5">> >>

\* ... with a currency column no raw header matches ...
HdrUnmatchedCurrency ==
  << <<>>, <<"C","a","p","t","u","r","e"," ","M","a","n","a","g","e","r">>, <<"O","p","p","o","r","t","u","n","i","t","y"," ","N","a","m","e">>, <<"C","o","s","t"," ","(","$",")">>, <<"J","u","n"," ","2","0","2","5">> >>

\* ... and with a single matched column
HdrSingle == << <<>>, <<"C","a","p","t","u","r","e"," ","M","a","n","a","g","e","r">>, <<"N","o","t","e","s">>, <<"J","u","n"," ","2","0","2","5">> >>

TemplateHeaders ==
  { HdrPlain, HdrGap, HdrColumnA, HdrUnmatched, HdrCurrencySecond,
    HdrUnmatchedCurrency, HdrSingle }

\* a row of the template's old data: the text s in every kept column
\* from column B on, and the text a in column A
OldRow(a, s) ==
  [ c \in GridCols |-> IF c = 1 THEN (IF a = <<>> THEN None ELSE StrV(a))
                       ELSE StrV(s) ]

\* old data of a template: one data row, the total row labelled in
\* column A, one footer row ...
BodyTotalInA == << OldRow(<<>>, <<"o","l","d">>), OldRow(<<"T","o","t","a","l">>, <<"s","u","m">>),
                   OldRow(<<>>, <<"f","o","o","t","e","r">>) >>

\* ... the same with the total row labelled in column B only ...
BodyTotalInB ==
  << OldRow(<<>>, <<"o","l","d">>),
     [OldRow(<<>>, <<"s","u","m">>) EXCEPT ![2] = StrV(<<"T","o","t","a","l">>)],
     OldRow(<<>>, <<"f","o","o","t","e","r">>) >>

\* ... and no old data
BodyEmpty == <<>>

TemplateBodies == { BodyTotalInA, BodyTotalInB, BodyEmpty }

MkTemplate(hdr, body) == [exists |-> TRUE, cells |-> MkSheet(hdr, body)]

\* the header row of the raw export the program was generated from
SampleHeaders ==
  << <<>>, <<"C","a","p","t","u","r","e"," ","M","a","n","a","g","e","r">>, <<"O","p","p","o","r","t","u","n","i","t","y"," ","N","a","m","e">>, <<"C","o","n","t","r","a","c","t"," ","C","e","i","l","i","n","g"," ","V","a","l","u","e">>,
     <<"A","w","a","r","d"," ","D","a","t","e">>, <<"S","t","a","g","e">> >>

\* its first data rows
SampleRows ==
  << << <<>>, <<"A","l","i","c","e"," ","S","m","i","t","h">>, <<"R","a","d","a","r"," ","U","p","g","r","a","d","e">>, <<"$","1",",","2","5","0",",","0","0","0">>, <<"3","/","1","/","2","0","2","6">>,
        <<"C","a","p","t","u","r","e">> >>,
     << <<>>, <<"B","o","b"," ","J","o","n","e","s">>, <<"D","e","p","o","t"," ","S","u","p","p","o","r","t">>, <<"$","4","0",",","0","0","0">>, <<"1","1","/","1","5","/","2","0","2","5">>,
        <<"Q","u","a","l","i","f","i","c","a","t","i","o","n">> >> >>

\* what analyze_raw_data_sample returns for that export
SampleInfo ==
  [exists |-> TRUE, headers |-> SampleHeaders, sample_data |-> SampleRows,
   data_start_row |-> RawDataOffset]

\* a data row of a raw export: column 0 is blank, then owner, opportunity,
\* ceiling value, award date and stage
RawRow(owner, opp, value, date) ==
  << None, StrV(owner), StrV(opp), StrV(value), StrV(date),
     StrV(<<"C","a","p","t","u","r","e">>) >>

\* the same row in an export that lacks the last column
NarrowRow(row) == SubSeq(row, 1, Len(row) - 1)

BlankRow == << None, None, None, None, None, None >>

\* the data rows the row-handling checks draw from
RowDomain ==
  { RawRow(<<"a","l","i","c","e">>, <<"R","a","d","a","r"," ","U","p","g","r","a","d","e">>, <<"$","1",",","2","5","0",",","0","0","0">>, <<"3","/","1","/","2","0","2","6">>),
    RawRow(<<"b","o","b">>, <<"D","e","p","o","t"," ","S","u","p","p","o","r","t">>, <<"N","/","A">>, <<"T","B","D">>),
    RawRow(<<"b","o","b">>, <<"A","n","n","e","x"," ","L","e","a","s","e">>, <<>>, <<>>),
    RawRow(<<"Z","e","d">>, <<"7">>, <<>>, <<>>),
    RawRow(<<"n","a","n">>, <<"F","l","e","e","t"," ","S","t","u","d","y">>, <<>>, <<>>),
    RawRow(<<>>, <<"U","n","a","s","s","i","g","n","e","d"," ","B","i","d">>, <<"$","4","0",",","0","0","0">>, <<>>),
    RawRow(<<>>, <<"4","2">>, <<>>, <<>>),
    RawRow(<<"T","o","t","a","l">>, <<>>, <<>>, <<>>),
    RawRow(<<"a","l","i","c","e">>, <<"C","O","N","F","I","D","E","N","T","I","A","L"," ","I","N","F","O","R","M","A","T","I","O","N"," ","-"," ","D","O"," ","N","O","T"," ","D","I","S","T","R","I","B","U","T","E",".">>, <<>>, <<>>),
    RawRow(<<"C","o","n","f","i","d","e","n","t","i","a","l"," ","I","n","f","o","r","m","a","t","i","o","n"," ","-"," ","D","o"," ","N","o","t"," ","D","i","s","t","r","i","b","u","t","e">>, <<"x">>, <<>>, <<>>),
    BlankRow }

\* the data rows the worksheet checks draw from
SheetRowDomain ==
  { RawRow(<<"a","l","i","c","e">>, <<"R","a","d","a","r"," ","U","p","g","r","a","d","e">>, <<"$","1",",","2","5","0",",","0","0","0">>, <<"3","/","1","/","2","0","2","6">>),
    RawRow(<<>>, <<"U","n","a","s","s","i","g","n","e","d"," ","B","i","d">>, <<"N","/","A">>, <<"T","B","D">>),
    RawRow(<<" ","T","O","T","A","L"," ">>, <<>>, <<>>, <<>>) }

\* the 14 rows above the data: 13 blank rows and the header row
Preamble ==
  [ i \in 1..RawDataOffset |->
      IF i = RawDataOffset
        THEN [ c \in 1..Len(SampleHeaders) |->
                 IF SampleHeaders[c] = <<>> THEN None
                 ELSE StrV(SampleHeaders[c]) ]
        ELSE BlankRow ]

\* all sequences over S of length at most n
SeqsUpTo(S, n) == UNION { [1..k -> S] : k \in 0..n }

MkRawFile(data) == [exists |-> TRUE, rows |-> Preamble \o data]

\* the same export without its last column
MkNarrowFile(data) ==
  [exists |-> TRUE,
   rows |-> [ i \in 1..(RawDataOffset + Len(data)) |->
                NarrowRow((Preamble \o data)[i]) ]]

\* header rows of templates the analyzer checks draw from, among them a
\* row of calendar columns only and a blank header row
AnalyzeHeaders ==
  { HdrPlain, HdrUnmatched, HdrSingle,
    << <<>>, <<"J","u","n"," ","2","0","2","5">>, <<"J","u","l"," ","2","0","2","5">> >>,
    <<>> }

\* templates the header reader and the column classifier checks add:
\* header rows with one, two and three blank cells inside, header rows of
\* month-and-year look-alikes, and a header row of 51 filled cells
ReaderTemplates ==
  { MkTemplate(hdr, BodyEmpty) :
      hdr \in { HdrGap,
                << <<>>, <<"C","a","p","t","u","r","e"," ","M","a","n","a","g","e","r">>, <<>>, <<>>, <<"S","t","a","g","e">>, <<"J","u","n"," ","2","0","2","5">> >>,
                << <<"C","a","p","t","u","r","e"," ","M","a","n","a","g","e","r">>, <<>>, <<>>, <<>>, <<"S","t","a","g","e">>, <<"J","u","n"," ","2","0","2","5">> >>,
                << <<>>, <<>>, <<"S","t","a","g","e">>, <<>>, <<>>, <<>>, <<"J","u","n"," ","2","0","2","5">> >>,
                << <<>>, <<"S","t","a","g","e">>, <<"J","u","n"," ","2","0","3","1">>, <<"J","u","n"," ","2","0","2","5","0">>, <<"J","u","n"," ","2","0","2","4">>,
                   <<"J","u","n","e"," ","2","0","2","5">>, <<"J","U","N"," "," ","2","0","2","6">> >>,
                << <<>>, <<"S","t","a","g","e">>, <<"2","0","2","5"," ","J","u","n">>, <<"J","u","n"," ","2","0","2","5"," ","P","l","a","n">>, <<"J","u","n","2","0","2","5">>,
                   <<"D","e","c"," ","2","0","3","0">>, <<"J","u","n"," ","2","0","2">> >> } }
    \cup { [exists |-> TRUE,
            cells |-> [ r \in GridRows |->
                          [ c \in 1..51 |->
                              IF r = header_row THEN TextCell(<<"N","o","t","e","s">>)
                              ELSE EmptyCell ] ]] }

\* raw sheets of 17 rows that are blank but for at most two rows; these
\* are the header row of the export, one cell that names three indicators,
\* three cells that name the same indicator, or a data row, and lie at the
\* 0-indexed rows 9, 10, 12, 13, 14, 15 or 16
LocatorFiles ==
  LET kinds ==
        { Preamble[RawDataOffset],
          << None, StrV(<<"S","a","l","e","s","f","o","r","c","e"," ","O","p","p","o","r","t","u","n","i","t","y"," ","S","t","a","g","e"," ","r","e","p","o","r","t">>), None, None,
             None, None >>,
          << None, StrV(<<"C","a","p","t","u","r","e"," ","M","a","n","a","g","e","r">>), StrV(<<"C","a","p","t","u","r","e"," ","L","e","a","d">>),
             StrV(<<"C","a","p","t","u","r","e"," ","S","t","a","t","u","s">>), None, None >>,
          RawRow(<<"a","l","i","c","e">>, <<"R","a","d","a","r"," ","U","p","g","r","a","d","e">>, <<"$","1",",","2","5","0",",","0","0","0">>, <<"3","/","1","/","2","0","2","6">>) }
      positions == { 9, 10, 12, 13, 14, 15, 16 }
  IN  { [exists |-> TRUE,
         rows |-> [ i \in 1..17 |->
                      IF i - 1 = p THEN a
                      ELSE IF i - 1 = q THEN b
                      ELSE BlankRow ]] :
          p \in positions, q \in positions,
          a \in kinds, b \in kinds \cup {BlankRow} }

\* the template column names the mapper checks draw from
MapNames ==
  { <<"C","a","p","t","u","r","e"," ","M","a","n","a","g","e","r">>, <<"C","a","p","t","u","r","e"," ","L","e","a","d">>, <<"O","p","p","o","r","t","u","n","i","t","y"," ","N","a","m","e">>, <<"S","t","a","g","e">>,
    <<"C","e","i","l","i","n","g"," ","V","a","l","u","e"," ","(","$",")">>, <<"M","A","G"," ","V","a","l","u","e"," ","(","$",")">>, <<"G","o","v","W","i","n">>, <<"N","o","t","e","s">> }

\* most template columns in one smart_column_mapping call of the model
MaxMapSlots == 2

\* the template column lists: names without repetition, as the input
\* columns identify_input_vs_calendar_columns makes of them from column B on
MapTemplateColumns ==
  { [ i \in 1..Len(ns) |->
        [index |-> i + 1, name |-> ns[i],
         type |-> determine_column_type(ns[i])] ] :
      ns \in { s \in SeqsUpTo(MapNames, MaxMapSlots) :
                 s # <<>> /\ \A i, k \in 1..Len(s) : i # k => s[i] # s[k] } }

\* header rows of raw exports
MapRawHeaders ==
  { << <<>>, <<"C","a","p","t","u","r","e"," ","M","a","n","a","g","e","r">>, <<"O","p","p","o","r","t","u","n","i","t","y"," ","N","a","m","e">>, <<"S","t","a","g","e">>,
       <<"C","o","n","t","r","a","c","t"," ","C","e","i","l","i","n","g"," ","V","a","l","u","e">>, <<"G","o","v","W","i","n"," ","I","Q"," ","O","p","p","o","r","t","u","n","i","t","y"," ","I","D">> >>,
    << <<>>, <<"S","t","a","g","e">>, <<"O","p","p","o","r","t","u","n","i","t","y",":"," ","O","p","p","o","r","t","u","n","i","t","y"," ","N","a","m","e">>, <<"M","A","G"," ","V","a","l","u","e">>,
       <<"P","r","o","b","a","b","i","l","i","t","y"," ","(","%",")">>, <<"N","o","t","e","s"," ","a","n","d"," ","C","o","m","m","e","n","t","s">> >>,
    << <<>>, <<"C","a","p","t","u","r","e"," ","M","a","n","a","g","e","r"," ","N","a","m","e">>, <<"c","a","p","t","u","r","e"," ","m","a","n","a","g","e","r">>,
       <<"N","o","t","e","s"," ","a","n","d"," ","C","o","m","m","e","n","t","s">>, <<"N","O","T","E","S">>, <<"S","t","a","g","e">> >> }

\* sample rows of raw exports: none, or two rows
MapSampleData ==
  { <<>>,
    << << <<>>, <<"A","l","i","c","e"," ","S","m","i","t","h">>, <<"R","a","d","a","r"," ","U","p","g","r","a","d","e">>, <<"C","a","p","t","u","r","e">>, <<"$","1",",","2","5","0",",","0","0","0">>,
          <<"1","8","4","5","2","2">> >>,
       << <<>>, <<"Q","u","a","l","i","f","i","c","a","t","i","o","n">>, <<"D","e","p","o","t"," ","S","u","p","p","o","r","t">>, <<"4","0",",","0","0","0">>, <<"7","5">>,
          <<"s","e","e"," ","3","/","1"," ","m","e","m","o">> >> >> }

MapRawInfos ==
  { [exists |-> TRUE, headers |-> h, sample_data |-> s,
     data_start_row |-> RawDataOffset] :
      h \in MapRawHeaders, s \in MapSampleData }


\* most messages in the inbox when the loop starts
MaxInbox == 2

\* the messages the mail checks draw from: authorized senders in the letter
\* case of the list and in another one, with and without a display name, a
\* sender whose address only contains an authorized address; commands in
\* the subject and in the body of a reply
Messages ==
  LET mail(sender, subject, reply, body, file) ==
        [from_header |-> sender, subject |-> subject, in_reply_to |-> reply,
         body |-> body, attachment |-> file, seen |-> FALSE]
      export ==
        [present |-> TRUE, filename |-> <<"P","i","p","e","l","i","n","e",".","X","L","S","X">>,
         workbook |->
           MkRawFile(<< RawRow(<<"b","o","b">>, <<"D","e","p","o","t"," ","S","u","p","p","o","r","t">>, <<"N","/","A">>, <<"T","B","D">>),
                        RawRow(<<"a","l","i","c","e">>, <<"R","a","d","a","r"," ","U","p","g","r","a","d","e">>, <<"$","1",",","2","5","0",",","0","0","0">>,
                               <<"3","/","1","/","2","0","2","6">>) >>)]
      narrow ==
        [present |-> TRUE, filename |-> <<"e","x","p","o","r","t",".","x","l","s">>,
         workbook |->
           MkNarrowFile(<< RawRow(<<"a","l","i","c","e">>, <<"R","a","d","a","r"," ","U","p","g","r","a","d","e">>, <<"$","1",",","2","5","0",",","0","0","0">>,
                                  <<"3","/","1","/","2","0","2","6">>) >>)]
      layout ==
        [present |-> TRUE, filename |-> <<"t","e","m","p","l","a","t","e",".","x","l","s","x">>,
         workbook |-> MkTemplate(HdrSingle, BodyTotalInA)]
  IN  { mail(<<"d","e","n","i","s","e",".","k","o","p","e","l","@","m","a","g",".","u","s">>, <<"W","e","e","k","l","y"," ","p","i","p","e","l","i","n","e">>, FALSE, <<>>, export),
        mail(<<"J","o","s","e","p","h"," ","F","i","n","d","l","e","y"," ","<","J","O","S","E","P","H",".","F","I","N","D","L","E","Y","@","M","A","G",".","U","S",">">>, <<" ","H","e","r","e"," ">>, FALSE,
             <<>>, layout),
        mail(<<"r","o","h","a","n",".","a","n","a","n","d","@","m","a","g",".","u","s">>, <<"R","e",":"," ","I","n","t","e","r","a","c","t"," ","w","i","t","h"," ","t","h","e"," ","M","A","G"," ","B","o","t">>, FALSE,
             <<"H","e","r","e"," "," ","i","s"," ","t","h","e"," ","<","b",">","n","e","w","<","/","b",">"," ","l","a","y","o","u","t","."," ","H","i"," ","t","h","e","r","e","!"," ","I","'","m"," ","h","e","r","e"," ","t","o"," ","h","e","l","p">>,
             layout),
        mail(<<"x","r","o","h","a","n",".","a","n","a","n","d","@","m","a","g",".","u","s">>, <<"H","e","r","e">>, FALSE, <<>>, layout),
        mail(<<"R","o","h","a","n","a","n","a","n","d","7","2","7","2","@","g","m","a","i","l",".","c","o","m">>, <<"R","e",":"," ","P","i","p","e","l","i","n","e">>, TRUE,
             <<"P","l","e","a","s","e"," "," ","c","h","a","n","g","e"," ","F","O","R","M","A","T"," ","o","f"," ","t","h","e"," ","s","h","e","e","t">>, [present |-> FALSE]),
        mail(<<"d","e","n","i","s","e",".","k","o","p","e","l","@","m","a","g",".","u","s">>, <<"h","e","r","e">>, FALSE, <<>>, [present |-> FALSE]),
        mail(<<"R","o","h","a","n"," ","<","r","o","h","a","n",".","a","n","a","n","d","@","m","a","g",".","u","s",">">>, <<"R","e",":"," ","P","i","p","e","l","i","n","e">>, TRUE,
             <<"T","h","i","s"," ","w","e","e","k","'","s"," ","e","x","p","o","r","t"," ","i","s"," ","a","t","t","a","c","h","e","d",".">>, narrow) }
---------------------------------------------------------------------------
(* State                                                                   *)

VARIABLES
  pc,          \* the step the merge (or the mapper run) is at
  template,    \* the template workbook on disk
  app,         \* the generated merge program app.py, as its parameters
  rawFile,     \* the raw export handed to the merge
  df,          \* the DataFrame of the merge
  sheet,       \* the worksheet of the template loaded by the merge
  outputFile,  \* the workbook saved to the Downloads folder
  ret,         \* what the operation returned
  mapIn,       \* what the analyzer read and handed to smart_column_mapping
  mapOut,      \* its result
  backups,     \* the backup copies of app.py and of the template
  inbox,       \* the messages of the mailbox by id, each seen or unseen
  poll         \* the main loop: its step and what the last poll returned

vars ==
  << pc, template, app, rawFile, df, sheet, outputFile, ret, mapIn, mapOut,
     backups, inbox, poll >>

NoMapCall == [called |-> FALSE]

\* app.py was generated from the template on disk and the sample export;
\* the merge is about to run on a raw export
Init ==
  /\ pc = "start"
  /\ \E hdr \in TemplateHeaders, body \in TemplateBodies :
        template = MkTemplate(hdr, body)
  /\ app = analyzed_app(template, SampleInfo)
  /\ app.generated
  /\ \/ /\ template = MkTemplate(HdrPlain, BodyTotalInA)
        /\ \/ \E data \in SeqsUpTo(RowDomain, MaxRawRows) :
                 rawFile = MkRawFile(data)
           \/ rawFile = NoFile
     \/ \E data \in SeqsUpTo(SheetRowDomain, MaxRawRows) :
           rawFile \in {MkRawFile(data), MkNarrowFile(data)}
  /\ df = <<>>
  /\ sheet = <<>>
  /\ outputFile = NoFile
  /\ ret = "pending"
  /\ mapIn = NoMapCall
  /\ mapOut = NoMapCall
  /\ backups = NoBackups
  /\ inbox = <<>>
  /\ poll = [step |-> "off"]

\* process_and_merge_files up to the selection of the expected columns
StartMerge ==
  /\ pc = "start"
  /\ IF ~rawFile.exists \/ ~template.exists
       THEN pc' = "failed" /\ ret' = "None" /\ df' = df
     ELSE IF missing_columns(app, rawFile) \/ select_raises(app)
       THEN pc' = "failed" /\ ret' = "None" /\ df' = df
     ELSE pc' = "selected" /\ ret' = ret /\ df' = df_selected(app, rawFile)
  /\ UNCHANGED << template, app, rawFile, sheet, outputFile, mapIn, mapOut, backups, inbox, poll >>

\* the data processing, the filters, the Total row handling and the sort
Transform ==
  /\ pc = "selected"
  /\ IF processing_raises(app) \/ second_column_raises(app)
       THEN pc' = "failed" /\ ret' = "None" /\ df' = df
     ELSE \E rows \in { df_excluded(df_dropna(df_coerced(app, df))) } :
            \E with_mgr \in { df_with_mgr(rows) } :
               /\ \E s \in SortedArrangements(with_mgr) :
                     df' = df_final(rows, s)
               /\ pc' = "transformed"
               /\ ret' = ret
  /\ UNCHANGED << template, app, rawFile, sheet, outputFile, mapIn, mapOut, backups, inbox, poll >>

\* the template is loaded and its old data cleared
ClearOldData ==
  /\ pc = "transformed"
  /\ sheet' = cleared_sheet(app, template.cells)
  /\ pc' = "cleared"
  /\ UNCHANGED << template, app, rawFile, df, outputFile, ret, mapIn, mapOut, backups, inbox, poll >>

\* the rows of df are written into the worksheet
WriteNewData ==
  /\ pc = "cleared"
  /\ sheet' = written_sheet(app, sheet, df)
  /\ pc' = "written"
  /\ UNCHANGED << template, app, rawFile, df, outputFile, ret, mapIn, mapOut, backups, inbox, poll >>

\* a variant that saves the workbook over the template file
files_after_save_in_place(template_file, output_file, workbook) ==
  [template |-> [exists |-> TRUE, cells |-> workbook],
   output |-> output_file]

\* workbook.save(output_path): the two files after the save; output_path is
\* DEFAULT_OUTPUT_NAME in the Downloads folder, a file other than
\* TEMPLATE_PATH
files_after_save(template_file, output_file, workbook) ==
  [template |-> template_file,
   output |-> [exists |-> TRUE, cells |-> workbook]]

\* the workbook is saved under the output name and its path returned
SaveOutput ==
  /\ pc = "written"
  /\ template' = files_after_save(template, outputFile, sheet).template
  /\ outputFile' = files_after_save(template, outputFile, sheet).output
  /\ ret' = "path"
  /\ pc' = "done"
  /\ UNCHANGED << app, rawFile, df, sheet, mapIn, mapOut, backups, inbox, poll >>

Next == StartMerge \/ Transform \/ ClearOldData \/ WriteNewData \/ SaveOutput

Spec == Init /\ [][Next]_vars

---------------------------------------------------------------------------
(* The column mapper on its own                                            *)

InitMap ==
  /\ pc = "map_start"
  /\ \E tc \in MapTemplateColumns, info \in MapRawInfos :
        mapIn = [called |-> TRUE, template_columns |-> tc,
                 raw_data_info |-> info]
  /\ mapOut = NoMapCall
  /\ backups = NoBackups
  /\ inbox = <<>>
  /\ poll = [step |-> "off"]
  /\ template = NoFile
  /\ app = NoApp
  /\ rawFile = NoFile
  /\ df = <<>>
  /\ sheet = <<>>
  /\ outputFile = NoFile
  /\ ret = "pending"

\* one call of smart_column_mapping
MapColumns ==
  /\ pc = "map_start"
  /\ mapOut' = [called |-> TRUE,
                map |-> smart_column_mapping(mapIn.template_columns,
                                             mapIn.raw_data_info),
                unmapped |-> unmapped_report(mapIn.template_columns,
                                             mapIn.raw_data_info)]
  /\ pc' = "mapped"
  /\ UNCHANGED << template, app, rawFile, df, sheet, outputFile, ret, mapIn, backups, inbox, poll >>

\* a second call of smart_column_mapping on the same arguments
MapColumnsAgain ==
  /\ pc = "mapped"
  /\ mapOut' = [called |-> TRUE,
                map |-> mapOut.map,
                unmapped |-> mapOut.unmapped,
                again |-> second_mapping(mapOut.map, mapIn.template_columns,
                                         mapIn.raw_data_info)]
  /\ pc' = "mapped_twice"
  /\ UNCHANGED << template, app, rawFile, df, sheet, outputFile, ret, mapIn, backups, inbox, poll >>

NextMap == MapColumns \/ MapColumnsAgain

SpecMap == InitMap /\ [][NextMap]_vars

\* the template on disk was replaced, the latest raw export lies in the
\* input folder, and app.py is the program of the template before
InitAnalyze ==
  /\ pc = "analyze_start"
  /\ \/ /\ \E hdr \in AnalyzeHeaders :
              template = MkTemplate(hdr, BodyTotalInA)
        /\ rawFile \in LocatorFiles \cup {NoFile}
     \/ /\ template \in ReaderTemplates
        /\ rawFile \in {MkRawFile(<<>>), NoFile}
  /\ app = analyzed_app(MkTemplate(HdrPlain, BodyTotalInA), SampleInfo)
  /\ df = <<>>
  /\ sheet = <<>>
  /\ outputFile = NoFile
  /\ ret = "pending"
  /\ mapIn = NoMapCall
  /\ mapOut = NoMapCall
  /\ backups = NoBackups
  /\ inbox = <<>>
  /\ poll = [step |-> "off"]

\* analyze_and_update: the template is read, the raw export analyzed, the
\* columns mapped and app.py written anew; any failure returns False and
\* leaves app.py as it was. The template was replaced before the call and
\* stays replaced, and the next raw export is merged by the app.py that is
\* on disk then
AnalyzeAndUpdate ==
  /\ pc = "analyze_start"
  /\ LET headers == extract_template_headers(template.cells)
         input_columns == input_columns_of(headers)
         calendar_columns == calendar_columns_of(headers)
         raw_data_info == analyze_raw_data_sample(rawFile)
         column_mapping ==
           IF ~raw_data_info.exists THEN NoMapping
           ELSE [exists |-> TRUE,
                 map |-> smart_column_mapping(input_columns, raw_data_info)]
         new_app_content ==
           generate_app_py_content(input_columns, calendar_columns,
                                   column_mapping)
     IN  IF headers = <<>> \/ input_columns = <<>>
           THEN /\ pc' = "start" /\ ret' = "False" /\ app' = app
                /\ mapIn' = [called |-> FALSE,
                             headers |-> headers,
                             template_columns |-> input_columns,
                             calendar_columns |-> calendar_columns,
                             raw_data_info |-> NoInfo]
                /\ mapOut' = mapOut
                /\ backups' = backups
         ELSE /\ mapIn' = [called |-> raw_data_info.exists,
                           headers |-> headers,
                           template_columns |-> input_columns,
                           calendar_columns |-> calendar_columns,
                           raw_data_info |-> raw_data_info]
              /\ mapOut' =
                   IF raw_data_info.exists
                     THEN [called |-> TRUE,
                           map |-> column_mapping.map,
                           unmapped |-> unmapped_report(input_columns,
                                                        raw_data_info)]
                     ELSE NoMapCall
              /\ IF new_app_content.generated
                   THEN /\ pc' = "start" /\ ret' = "True"
                        /\ \E copied \in BOOLEAN :
                             backups' = backup_current_app_py(backups, app,
                                                              copied)
                        /\ app' = new_app_content
                   ELSE /\ pc' = "start" /\ ret' = "False"
                        /\ app' = app
                        /\ backups' = backups
  /\ UNCHANGED << template, rawFile, df, sheet, outputFile, inbox, poll >>

NextAnalyze ==
  \/ AnalyzeAndUpdate
  \/ StartMerge
  \/ Transform
  \/ ClearOldData
  \/ WriteNewData
  \/ SaveOutput

SpecAnalyze == InitAnalyze /\ [][NextAnalyze]_vars

(* the polling loop of run_pipeline.py *)

InitPipeline ==
  /\ pc = "idle"
  /\ template = MkTemplate(HdrPlain, BodyTotalInA)
  /\ app = analyzed_app(template, SampleInfo)
  /\ rawFile = NoFile
  /\ df = <<>>
  /\ sheet = <<>>
  /\ outputFile = NoFile
  /\ ret = "pending"
  /\ mapIn = NoMapCall
  /\ mapOut = NoMapCall
  /\ backups = NoBackups
  /\ inbox \in SeqsUpTo(Messages, MaxInbox)
  /\ poll = [step |-> "poll", result |-> NoResult, failure |-> "none",
             final_file |-> NoFile]

\* a variant of the loop that ends when an iteration failed
after_iteration_until_failure(failure) ==
  IF failure = "none" THEN "sleep" ELSE "stopped"

\* where the loop goes after the try block of one iteration: every
\* exception was caught, time.sleep comes next
after_iteration(failure) == "sleep"

\* result = download_latest_attachment()
Poll ==
  /\ poll.step = "poll"
  /\ \E connected \in BOOLEAN :
       \E after \in { download_latest_attachment(
                        [inbox |-> inbox, template |-> template,
                         rawFile |-> rawFile, backups |-> backups,
                         app |-> app, result |-> NoResult],
                        connected, written, copied) :
                        written \in BOOLEAN, copied \in BOOLEAN } :
          /\ inbox' = after.inbox
          /\ template' = after.template
          /\ rawFile' = after.rawFile
          /\ backups' = after.backups
          /\ app' = after.app
          /\ poll' = [poll EXCEPT
                        !.step = "dispatch",
                        !.result = after.result,
                        !.failure = IF connected THEN "none" ELSE "fetch"]
  /\ UNCHANGED << pc, df, sheet, outputFile, ret, mapIn, mapOut >>

\* main, the dispatch on action_type: a reply is sent, or app.py is started
\* on the saved file; a reply that cannot be sent goes to handle_error,
\* whose own messages may fail as well
Dispatch ==
  /\ poll.step = "dispatch"
  /\ IF poll.result.action = "None"
       THEN /\ poll' = [poll EXCEPT !.step = after_iteration(poll.failure)]
            /\ pc' = pc
     ELSE IF poll.result.action \notin
               { "NORMAL_PROCESSING", "THREAD_NORMAL_PROCESSING" }
       THEN \E sent \in BOOLEAN :
              LET failure == IF sent THEN "none" ELSE "send"
              IN  /\ poll' = [poll EXCEPT !.step = after_iteration(failure),
                                          !.failure = failure]
                  /\ pc' = pc
     ELSE /\ poll' = [poll EXCEPT !.step = "processing"]
          /\ pc' = "start"
  /\ UNCHANGED << template, app, rawFile, df, sheet, outputFile, ret, mapIn,
                  mapOut, backups, inbox >>

\* generate_gantt_chart after app.py ended, and the reply: a failed run
\* raises and goes to handle_error; the output of a successful run is moved
\* to the output directory and sent
FinishProcessing ==
  /\ poll.step = "processing"
  /\ pc \in {"done", "failed"}
  /\ \E sent \in BOOLEAN :
       LET failure == IF pc = "failed" THEN "processing"
                      ELSE IF sent THEN "none" ELSE "send"
       IN  poll' = [poll EXCEPT
                      !.step = after_iteration(failure),
                      !.failure = failure,
                      !.final_file = IF pc = "done" THEN outputFile
                                     ELSE poll.final_file]
  /\ outputFile' = IF pc = "done" THEN NoFile ELSE outputFile
  /\ pc' = "idle"
  /\ df' = <<>>
  /\ sheet' = <<>>
  /\ ret' = "pending"
  /\ UNCHANGED << template, app, rawFile, mapIn, mapOut, backups, inbox >>

\* time.sleep(Config.CHECK_INTERVAL_SECONDS), then the next iteration
Sleep ==
  /\ poll.step = "sleep"
  /\ poll' = [poll EXCEPT !.step = "poll"]
  /\ UNCHANGED << pc, template, app, rawFile, df, sheet, outputFile, ret,
                  mapIn, mapOut, backups, inbox >>

NextPipeline ==
  \/ Poll
  \/ Dispatch
  \/ StartMerge
  \/ Transform
  \/ ClearOldData
  \/ WriteNewData
  \/ SaveOutput
  \/ FinishProcessing
  \/ Sleep

\* the loop runs in one process that nothing suspends for ever: a step that
\* can be taken is taken
SpecPipeline == InitPipeline /\ [][NextPipeline]_vars /\ WF_vars(NextPipeline)
---------------------------------------------------------------------------
(* Properties                                                              *)

\* the data rows of the raw export as the merge selects them
SelectedRows == df_selected(app, rawFile)

\* the rows left after the cleaning and the filters
FilteredRows == df_filtered(app, rawFile)

\* the text of a value, "" for a missing one
TextOf(v) == IF v.k = "str" THEN v.s ELSE <<>>

\* an empty cell value: None, NaN or the empty text
IsEmptyValue(v) == isna(v) \/ (v.k = "str" /\ v.s = <<>>)

\* the merge has produced its row list
Transformed == pc \in {"transformed", "cleared", "written", "done"}

\* the worksheet row that row k of df is written to
SheetRowOf(k) == DATA_START_ROW + k - 1

\* the header slots and the DATA and CALENDAR slots of the template on disk
TemplateSlots == extract_template_headers(template.cells)
DataSlots == input_columns_of(TemplateSlots)
CalendarSlots == calendar_columns_of(TemplateSlots)

\* the place of a DATA slot among the columns of df, 0 when it has no mapping
DfColumnOf(name) ==
  IF \E m \in 1..Len(app.column_names) : app.column_names[m] = name
    THEN CHOOSE m \in 1..Len(app.column_names) : app.column_names[m] = name
    ELSE 0

---------------------------------------------------------------------------
\* C1 (as claimed): when the raw rows contain a Total row, the transformed
\* row list ends with the Total row, rows with a non-empty first field come
\* before rows with an empty first field, which come before the Total row,
\* and the rows with a non-empty first field are in ascending order.
ClaimedClass(row) ==
  IF is_total_row(row) THEN 2
  ELSE IF astype_str(row[1]) # <<>> /\ ~isna(row[1]) THEN 0
  ELSE 1

C1_AsClaimed ==
  (pc = "transformed" /\ \E i \in 1..Len(SelectedRows) :
                            is_total_row(SelectedRows[i]))
    => /\ df # <<>>
       /\ is_total_row(df[Len(df)])
       /\ \A i, k \in 1..Len(df) :
            i < k => /\ ClaimedClass(df[i]) <= ClaimedClass(df[k])
                     /\ (ClaimedClass(df[i]) = 0 /\ ClaimedClass(df[k]) = 0)
                          => ~ValueLess(df[k][1], df[i][1])

\* C1 (amended): when a Total row is left after the filters, the
\* transformed row list ends with the Total rows; the rows with an owner
\* (first field neither empty, missing nor the text "nan" in any letter
\* case) come before the rows without an owner, which come before the Total
\* rows; and the rows with an owner are in ascending order of the first field.
OwnerClass(row) ==
  IF is_total_row(row) THEN 2 ELSE IF has_mgr(row) THEN 0 ELSE 1

C1_RowOrder ==
  (pc = "transformed" /\ \E i \in 1..Len(FilteredRows) :
                            is_total_row(FilteredRows[i]))
    => /\ df # <<>>
       /\ is_total_row(df[Len(df)])
       /\ \A i, k \in 1..Len(df) :
            i < k => /\ OwnerClass(df[i]) <= OwnerClass(df[k])
                     /\ (OwnerClass(df[i]) = 0 /\ OwnerClass(df[k]) = 0)
                          => ~ValueLess(df[k][1], df[i][1])

\* a raw export that starts with the Total row and holds two owners in
\* descending order comes out as the two owners ascending, then the Total row
C1_Witness ==
  /\ pc = "transformed"
  /\ Len(SelectedRows) = 3
  /\ is_total_row(SelectedRows[1])
  /\ ValueLess(SelectedRows[3][1], SelectedRows[2][1])
  /\ Len(df) = 3
  /\ df[1] = df_coerced(app, SelectedRows)[3]
  /\ df[2] = df_coerced(app, SelectedRows)[2]
  /\ has_mgr(df[1]) /\ has_mgr(df[2])
  /\ is_total_row(df[3])

---------------------------------------------------------------------------
\* C2 (as claimed): in the mapping smart_column_mapping returns, no two
\* template columns are mapped to the same raw column index.
C2_NoDoubleClaim ==
  pc = "mapped" =>
    \A a, b \in DOMAIN mapOut.map :
       a # b => mapOut.map[a].raw_index # mapOut.map[b].raw_index

---------------------------------------------------------------------------
\* C3 (as claimed): in the saved output, the cell of a currency column
\* holds the number when the raw text parses after '$' and ',' are removed,
\* and the raw text itself when it does not parse.
ClaimedCurrencyCell(raw, cellv) ==
  LET digits == RemoveChars(raw, {"$", ","})
  IN  IF IsNumberText(digits) THEN cellv = NumV(IntOfDigits(digits))
      ELSE IF raw = <<>> THEN IsEmptyValue(cellv)
      ELSE cellv = StrV(raw)

C3_CurrencyFallback ==
  pc = "done" =>
    \A k \in 1..Len(df), c \in 1..Len(app.column_names) :
       processing_type(app, c) = "currency" =>
         \E r \in 1..Len(SelectedRows) :
            /\ TextOf(SelectedRows[r][1]) = TextOf(df[k][1])
            /\ ClaimedCurrencyCell(SelectedRows[r][c].s,
                                   outputFile.cells[SheetRowOf(k)][c + 1].v)

---------------------------------------------------------------------------
\* C4 (as claimed): when the filtered rows hold a Total row, every other
\* row whose second field is only digits has those digits in a Total row's
\* second field and is itself not in the transformed row list.
C4_AsClaimed ==
  pc = "transformed" =>
    LET rows == FilteredRows
    IN  total_df(rows) # <<>> =>
          \A i \in 1..Len(rows) :
             (~is_total_row(rows[i]) /\ is_count_row(rows[i])) =>
               /\ \E k \in 1..Len(df) :
                     is_total_row(df[k]) /\ df[k][2] = rows[i][2]
               /\ \A k \in 1..Len(df) : df[k] # rows[i]

\* C4 (amended): when the filtered rows hold a Total row and other rows
\* whose second field is only digits, the digits of the first such row are
\* in the second field of the first Total row, and no such row is in the
\* transformed row list; the rows [("", "42"), ("Total", "")] give exactly
\* one row, the Total row with second field "42".
C4_FoldFirstCount ==
  pc = "transformed" =>
    LET rows == FilteredRows
        counts == SelectSeq(main_df(rows), is_count_row)
    IN  /\ (total_df(rows) # <<>> /\ counts # <<>>) =>
              /\ total_df(df) # <<>>
              /\ total_df(df)[1][2] = counts[1][2]
              /\ \A k \in 1..Len(df) :
                    is_count_row(df[k]) => is_total_row(df[k])
        /\ ( /\ Len(rows) = 2
             /\ TextOf(rows[1][1]) = <<>> /\ TextOf(rows[1][2]) = <<"4","2">>
             /\ TextOf(rows[2][1]) = <<"T","o","t","a","l">> /\ TextOf(rows[2][2]) = <<>> )
             => /\ Len(df) = 1
                /\ TextOf(df[1][1]) = <<"T","o","t","a","l">>
                /\ TextOf(df[1][2]) = <<"4","2">>

\* the rows [("", "42"), ("Total", "")] were transformed
C4_Witness ==
  /\ pc = "transformed"
  /\ Len(SelectedRows) = 2
  /\ TextOf(SelectedRows[1][1]) = <<>>
  /\ TextOf(SelectedRows[1][2]) = <<"4","2">>
  /\ TextOf(SelectedRows[2][1]) = <<"T","o","t","a","l">>
  /\ TextOf(SelectedRows[2][2]) = <<>>
  /\ Len(df) = 1

---------------------------------------------------------------------------
\* what a value looks like in the cell it was written to
LandsAs(val, cellv) ==
  IF isna(val) THEN cellv = None
  ELSE cellv \in {val, to_numeric(val), parse_date(val)}

\* C5 (as claimed): in the saved output, every written row holds the value
\* of each mapped DATA slot in the column at that slot's own position, and
\* an empty cell in the column of each DATA slot without a mapping.
C5_SlotPositions ==
  pc = "done" =>
    \A k \in 1..Len(df), i \in 1..Len(DataSlots) :
       LET cellv == outputFile.cells[SheetRowOf(k)][DataSlots[i].index].v
           m == DfColumnOf(DataSlots[i].name)
       IN  IF m # 0 THEN LandsAs(df[k][m], cellv) ELSE IsEmptyValue(cellv)

---------------------------------------------------------------------------
\* C6 (as claimed): in the saved output, the cell that holds the value of
\* a slot has the policy of that slot's type: a non-empty currency cell is a
\* number in the currency format, a date cell holds the parsed date in the
\* date format, a text_wrap cell has wrap-text alignment, and no cell of
\* another type has them.
C6_PolicyOfOwnSlot ==
  pc = "done" =>
    \A k \in 1..Len(df), m \in 1..Len(app.column_names) :
       LET type == determine_column_type(app.column_names[m])
           cell == outputFile.cells[SheetRowOf(k)][m + 1]
       IN  /\ (type = "currency" /\ ~IsEmptyValue(cell.v))
                => (cell.v.k = "num" /\ cell.fmt = "$#,##0")
           /\ type = "date"
                => (cell.v = parse_date(df[k][m]) /\ cell.fmt = "mm/dd/yyyy")
           /\ type = "text_wrap" => cell.wrap
           /\ type # "currency" => cell.fmt # "$#,##0"
           /\ type # "date" => cell.fmt # "mm/dd/yyyy"
           /\ type # "text_wrap" => ~cell.wrap

---------------------------------------------------------------------------
\* the last data row of the output: the last old data row of the template
\* or the last newly written row, whichever is lower on the sheet
LastDataRow == Max(end_row_of(template.cells), SheetRowOf(Len(df)))

\* C7 (as claimed): in the saved output, every cell of every CALENDAR
\* column from the data-start row through the last data row is empty.
C7_CalendarEmpty ==
  pc = "done" =>
    \A i \in 1..Len(CalendarSlots), r \in DATA_START_ROW..LastDataRow :
       IsEmptyValue(outputFile.cells[r][CalendarSlots[i].index].v)

---------------------------------------------------------------------------
\* C8 (as claimed): after the clear step, every cell at the position of a
\* template column in the rows from the data-start row to the clear
\* boundary is empty.
C8_ClearedAllSlots ==
  pc = "cleared" =>
    \A i \in 1..Len(TemplateSlots),
       r \in DATA_START_ROW..end_row_of(template.cells) :
       sheet[r][TemplateSlots[i].excel_position].v = None

---------------------------------------------------------------------------
\* C9 (as claimed): in the saved output, every cell of a row below the
\* template's old Total row holds the value it holds in the template.
C9_RowsBelowTotalKept ==
  pc = "done" =>
    \A t \in DATA_START_ROW..max_row(template.cells) :
       is_old_total_row(template.cells, t) =>
         \A r \in GridRows, c \in GridCols :
            r > t => outputFile.cells[r][c].v = template.cells[r][c].v

---------------------------------------------------------------------------
\* a text that holds the confidentiality notice in any letter case
HasNotice(v) ==
  Contains(lower(astype_str(v)),
           lower(<<"C","o","n","f","i","d","e","n","t","i","a","l"," ","I","n","f","o","r","m","a","t","i","o","n"," ","-"," ","D","o"," ","N","o","t"," ","D","i","s","t","r","i","b","u","t","e">>))

\* C10: no row whose first or second field contains the confidentiality
\* notice, in any letter case, is in the transformed row list or in a
\* written row of the saved output.
C10_NoNoticeRows ==
  /\ Transformed =>
       \A k \in 1..Len(df) : ~HasNotice(df[k][1]) /\ ~HasNotice(df[k][2])
  /\ pc = "done" =>
       \A k \in 1..Len(df) :
          /\ ~HasNotice(outputFile.cells[SheetRowOf(k)][2].v)
          /\ ~HasNotice(outputFile.cells[SheetRowOf(k)][3].v)

\* a raw export with a notice row and another row was merged and saved
C10_Witness ==
  /\ pc = "done"
  /\ \E r \in 1..Len(SelectedRows) :
        HasNotice(SelectedRows[r][1]) \/ HasNotice(SelectedRows[r][2])
  /\ Len(df) >= 1
  /\ Len(df) < Len(SelectedRows)


---------------------------------------------------------------------------
\* C11 (as claimed): every row of the transformed row list has a non-empty
\* second field: no row whose second field is missing or the empty text is
\* left after the primary-key filter.
C11_SecondFieldNonEmpty ==
  Transformed => \A k \in 1..Len(df) : ~IsEmptyValue(df[k][2])

---------------------------------------------------------------------------
\* the raw column indexes (0-based) the slots before slot i were mapped to
ClaimedBefore(i) ==
  { mapOut.map[mapIn.template_columns[k].name].raw_index :
      k \in { q \in 1..(i - 1) :
                mapIn.template_columns[q].name \in DOMAIN mapOut.map } }

\* the raw header at 0-based index r equals the name, letter case aside
EqualsHeader(name, r) ==
  /\ strip(mapIn.raw_data_info.headers[r + 1]) # <<>>
  /\ lower(strip(mapIn.raw_data_info.headers[r + 1])) = lower(strip(name))

\* C12 (as claimed): a slot whose name equals a raw header, letter case
\* aside, is mapped to that raw column when no earlier slot was mapped to
\* it, whatever the other raw headers and the sample values are.
C12_ExactNameBinds ==
  pc = "mapped" =>
    \A i \in 1..Len(mapIn.template_columns) :
       \A r \in 0..(Len(mapIn.raw_data_info.headers) - 1) :
          LET name == mapIn.template_columns[i].name
          IN  (EqualsHeader(name, r) /\ r \notin ClaimedBefore(i))
                => /\ name \in DOMAIN mapOut.map
                   /\ mapOut.map[name].raw_index = r

---------------------------------------------------------------------------
\* the highest score any raw column with a non-blank header has for a
\* template column name, 0 when there is no such raw column
BestScore(name) ==
  LET h == mapIn.raw_data_info.headers
      s == mapIn.raw_data_info.sample_data
      scores == { column_score(name, h, s, i) : i \in scored_columns(h) }
  IN  IF scores = {} THEN 0
      ELSE CHOOSE x \in scores : \A y \in scores : y <= x

\* C13: a slot is in the returned mapping exactly when its best score is
\* above 0, which for the scores the mapper can give is the same as at
\* least 10; a mapped slot carries that best score; a slot whose best score
\* is below that is not in the mapping and is among the slots reported
\* with "No mapping found".
C13_AcceptanceThreshold ==
  pc = "mapped" =>
    \A i \in 1..Len(mapIn.template_columns) :
       LET name == mapIn.template_columns[i].name
           reported == \E k \in 1..Len(mapOut.unmapped) :
                          mapOut.unmapped[k] = name
       IN  /\ (name \in DOMAIN mapOut.map) <=> (BestScore(name) > 0)
           /\ (BestScore(name) > 0) <=> (BestScore(name) >= 10)
           /\ (name \in DOMAIN mapOut.map)
                => mapOut.map[name].score = BestScore(name)
           /\ reported <=> (name \notin DOMAIN mapOut.map)

\* a call in which one slot was mapped and another was left unmapped
C13_Witness ==
  /\ pc = "mapped"
  /\ \E i, k \in 1..Len(mapIn.template_columns) :
        /\ mapIn.template_columns[i].name \in DOMAIN mapOut.map
        /\ mapIn.template_columns[k].name \notin DOMAIN mapOut.map
        /\ BestScore(mapIn.template_columns[k].name) = 0
        /\ mapOut.unmapped = << mapIn.template_columns[k].name >>

---------------------------------------------------------------------------
---------------------------------------------------------------------------
\* the analyzer has run the raw header locator and it returned a header row
Located == pc # "analyze_start" /\ mapIn.called

\* the 0-indexed header row the locator settled on
LocatedRow == mapIn.raw_data_info.data_start_row - 1

\* the number of non-empty cells of a row that contain an indicator word
KeywordCells(row) ==
  Cardinality({ c \in 1..Len(row) :
                  row[c] # <<>> /\ ContainsAny(lower(row[c]), indicators) })

\* the number of indicator words that occur in some cell of a row
KeywordsHit(row) ==
  Cardinality({ ind \in indicators :
                  \E c \in 1..Len(row) : Contains(lower(row[c]), ind) })

\* C15 (as claimed): the locator returns the earliest of the first 20 rows
\* of the raw sheet in which at least 3 non-empty cells contain an indicator
\* word, and row 13 (0-indexed), the fallback, when no row has that.
C15_AsClaimed ==
  Located =>
    LET vals == sample_raw_values(rawFile)
        ok == { i \in 0..(SampleWindow - 1) : KeywordCells(vals[i + 1]) >= 3 }
    IN  /\ ok # {} => (LocatedRow \in ok /\ \A i \in ok : LocatedRow <= i)
        /\ ok = {} => LocatedRow = 13

\* C15 (amended): the locator searches the rows 10 to 19 (0-indexed) of the
\* raw sheet only and returns the earliest of them in which at least 3 of
\* the six indicator words occur, whatever the number of cells they occur
\* in; when none of these rows has that, it returns row 13 with data start
\* row 14; the headers it returns are the cells of that row.
C15_EarliestOfSearchedRows ==
  Located =>
    LET vals == sample_raw_values(rawFile)
        ok == { i \in 10..19 : KeywordsHit(vals[i + 1]) >= 3 }
    IN  /\ ok # {} => (LocatedRow \in ok /\ \A i \in ok : LocatedRow <= i)
        /\ ok = {} => LocatedRow = 13
        /\ mapIn.raw_data_info.headers = vals[LocatedRow + 1]

\* the locator passed over row 9, in which three cells name three indicator
\* words, and returned row 12
C15_Witness ==
  /\ Located
  /\ LocatedRow = 12
  /\ KeywordsHit(sample_raw_values(rawFile)[10]) >= 3
  /\ KeywordCells(sample_raw_values(rawFile)[10]) >= 3

---------------------------------------------------------------------------
\* C16 (as claimed): the rows the merge selects for the transform are the
\* rows of the raw file from the data start row of the locator on, that
\* is, from the row after the header row the locator returned for the file.
C16_RowsFromLocatedStart ==
  (pc = "selected" /\ mapIn.called) =>
    LET vals == raw_values(rawFile)
        start == mapIn.raw_data_info.data_start_row
        data == SubSeq(vals, start + 1, Len(vals))
    IN  df = [ r \in 1..Len(data) |->
                 [ c \in 1..Len(app.expected_columns) |->
                     StrV(data[r][app.expected_columns[c] + 1]) ] ]

---------------------------------------------------------------------------
\* the header cell in a column of the template holds text
HeaderFilled(c) ==
  LET v == CellAt(template.cells, header_row, c).v
  IN  v.k # "none" /\ strip(astype_str(v)) # <<>>

\* three empty header cells in a row lie left of a column
EmptyRunBefore(c) ==
  \E k \in 1..(c - 3) :
     ~HeaderFilled(k) /\ ~HeaderFilled(k + 1) /\ ~HeaderFilled(k + 2)

\* the headers the analyzer read are, in column order, the trimmed texts
\* of the header cells in the columns cols, with the column numbers
ReadExactly(cols) ==
  /\ { mapIn.headers[i].excel_position : i \in 1..Len(mapIn.headers) } = cols
  /\ \A i \in 1..Len(mapIn.headers) :
        /\ i > 1 => mapIn.headers[i - 1].excel_position
                      < mapIn.headers[i].excel_position
        /\ mapIn.headers[i].name =
             strip(astype_str(CellAt(template.cells, header_row,
                                     mapIn.headers[i].excel_position).v))

---------------------------------------------------------------------------
\* the name is two tokens, a month abbreviation and a 4-digit year that is
\* 2025 or later
MonthAndYear(name) ==
  LET words == split(lower(strip(name)))
  IN  /\ Len(words) = 2
      /\ words[1] \in month_names
      /\ Len(words[2]) = 4
      /\ isdigit(words[2])
      /\ IntOfDigits(words[2]) >= 2025

\* C18 (as claimed): of the headers the analyzer read, the calendar columns
\* are exactly those whose name is a month abbreviation followed by a
\* 4-digit year from 2025 on, and the input (DATA) columns are all others.
C18_CalendarIffMonthAndYear ==
  pc # "analyze_start" =>
    \A i \in 1..Len(mapIn.headers) :
       LET h == mapIn.headers[i]
           calendar == \E k \in 1..Len(mapIn.calendar_columns) :
                          mapIn.calendar_columns[k].index
                            = h.excel_position
           data == \E k \in 1..Len(mapIn.template_columns) :
                      mapIn.template_columns[k].index
                        = h.excel_position
       IN  /\ calendar <=> MonthAndYear(h.name)
           /\ data <=> ~MonthAndYear(h.name)

---------------------------------------------------------------------------
\* the analyzer has run and found no input (DATA) column in the header row
\* of the template
NoDataSlot == pc # "analyze_start" /\ mapIn.template_columns = <<>>

\* C19 (as claimed): when the header row of the template yields no DATA
\* slot, failure is signalled and nothing is written: app.py is not
\* generated anew and no merge output file is saved.
C19_NothingWritten ==
  NoDataSlot =>
    /\ ret \in {"False", "None"}
    /\ app = analyzed_app(MkTemplate(HdrPlain, BodyTotalInA), SampleInfo)
    /\ ~outputFile.exists

---------------------------------------------------------------------------
\* the number of DATA slots the mapper gave a raw column
MappedSlots ==
  Cardinality({ i \in 1..Len(mapIn.template_columns) :
                  mapIn.template_columns[i].name \in DOMAIN mapOut.map })

\* C20 (as claimed): when the mapper gave fewer than 70% of the DATA slots
\* a raw column, none of them included, the analysis still completes: it
\* returns True with app.py generated, and every slot without a raw column
\* is among the names reported as unmapped.
C20_LowCoverageCompletes ==
  (pc = "start" /\ mapIn.called
     /\ 10 * MappedSlots < 7 * Len(mapIn.template_columns)) =>
    /\ ret = "True"
    /\ app = generate_app_py_content(mapIn.template_columns,
                                     mapIn.calendar_columns,
                                     [exists |-> TRUE, map |-> mapOut.map])
    /\ \A i \in 1..Len(mapIn.template_columns) :
          mapIn.template_columns[i].name \notin DOMAIN mapOut.map
            => \E k \in 1..Len(mapOut.unmapped) :
                  mapOut.unmapped[k] = mapIn.template_columns[i].name

---------------------------------------------------------------------------
---------------------------------------------------------------------------
\* C22: no step of the merge changes the template file on disk: the file
\* has the same content after every step, whether the merge goes on, ends
\* with a saved output or fails.
C22_TemplateUntouched == [][template' = template]_vars

\* a merge that changed its worksheet and saved it as the output file
C22_Witness ==
  /\ pc = "done"
  /\ outputFile.exists
  /\ outputFile.cells # template.cells

---------------------------------------------------------------------------
\* C28 (as claimed): of the rows that are left after the filters and are no
\* Total row, at most one is missing from the transformed row list when a
\* Total row is left, and none is missing when no Total row is left.
C28_FoldRemovesAtMostOne ==
  pc = "transformed" =>
    LET kept == Len(SelectSeq(df, LAMBDA r : ~is_total_row(r)))
        before == Len(main_df(FilteredRows))
    IN  IF total_df(FilteredRows) # <<>>
          THEN kept >= before - 1
          ELSE kept = before

---------------------------------------------------------------------------
\* C29 (as claimed): when the merge fails although the raw file and the
\* template exist and the generated processing lines cannot raise, some
\* mapped raw column index is no column of the raw sheet; a raw file that
\* has every mapped column, the last column of the sheet included, is not
\* rejected.
C29_RejectsOnlyMissingColumns ==
  (pc = "failed" /\ rawFile.exists /\ template.exists
     /\ ~processing_raises(app) /\ ~second_column_raises(app)) =>
    \E i \in 1..Len(app.expected_columns) :
       app.expected_columns[i] \notin 0..(raw_width(rawFile) - 1)

\* the app.py that is in place before the analysis starts
PreviousApp == analyzed_app(MkTemplate(HdrPlain, BodyTotalInA), SampleInfo)

\* C26 (as claimed): app.py is overwritten only after its backup copy was
\* written: whenever the analysis replaced app.py by new content, the
\* backup directory holds a copy of the previous app.py.
C26_BackupBeforeOverwrite ==
  (pc = "start" /\ ret = "True" /\ mapIn # NoMapCall) =>
    backups.app_py = PreviousApp

\* C30: the polling loop never stops: every iteration, whether the mail
\* fetch, the processing of the file or the sending of a reply failed or
\* not, reaches the sleep, and every sleep is followed by the next poll.
C30_LoopNeverStops ==
  /\ (poll.step \in {"dispatch", "processing"}) ~> (poll.step = "sleep")
  /\ (poll.step = "sleep") ~> (poll.step = "poll")

\* the loop polls again after an iteration in which app.py failed
C30_Witness ==
  /\ poll.step = "poll"
  /\ poll.failure = "processing"

\* the sender address of a message is one of the authorized addresses,
\* letter case ignored
SenderListed(msg) ==
  \E k \in 1..Len(AUTHORIZED_EMAILS) :
     lower(parseaddr(msg.from_header)) = lower(AUTHORIZED_EMAILS[k])

\* the message a poll step fetched
FetchedBy(i) == ~inbox[i].seen /\ inbox'[i].seen

\* a poll step returned an action or changed a file
PollActed ==
  \/ poll'.result.action # "None"
  \/ template' # template
  \/ rawFile' # rawFile
  \/ app' # app
  \/ backups' # backups

\* C23: a poll returns an action, saves an attachment or replaces the
\* template only when the message it fetched has a sender address of the
\* authorized list, letter case ignored; after fetching a message of any
\* other sender it returns nothing and changes no file.
C23_OnlyAuthorizedSenders ==
  [][poll.step = "poll" =>
       /\ PollActed =>
            \E i \in 1..Len(inbox) : FetchedBy(i) /\ SenderListed(inbox[i])
       /\ \A i \in 1..Len(inbox) :
            (FetchedBy(i) /\ ~SenderListed(inbox[i])) => ~PollActed]_vars

\* a "Here" message with a template attached, sent from an address that only
\* contains an authorized address, was fetched and nothing came of it
C23_Witness ==
  /\ poll.step = "dispatch"
  /\ poll.failure = "none"
  /\ poll.result.action = "None"
  /\ template = MkTemplate(HdrPlain, BodyTotalInA)
  /\ \E i \in 1..Len(inbox) :
        /\ inbox[i].seen
        /\ ~SenderListed(inbox[i])
        /\ inbox[i].attachment.present
        /\ \A k \in 1..Len(inbox) : k # i => ~inbox[k].seen

\* the two action names that report a template update as succeeded, and the
\* two that report it as failed
UpdateSucceeded == { "TEMPLATE_UPDATED", "THREAD_TEMPLATE_UPDATED" }
UpdateFailed == { "TEMPLATE_UPDATE_FAILED", "THREAD_TEMPLATE_UPDATE_FAILED" }

\* C24 (as claimed): when a poll replaces the template file by the Excel
\* attachment of a "Here" message, it regenerates app.py from the new
\* template and reports the update as succeeded.
C24_ReplacedThenRegenerated ==
  [][(poll.step = "poll" /\ template' # template) =>
       /\ poll'.result.action \in UpdateSucceeded
       /\ app' = analyzed_app(template', analyze_raw_data_sample(rawFile'))]_vars

\* C25 (as claimed): when every unread message is from an authorized
\* sender, the message a poll fetches is the most recent unread one.
C25_MostRecentOfAll ==
  [][(/\ poll.step = "poll"
      /\ \A i \in 1..Len(inbox) : ~inbox[i].seen => SenderListed(inbox[i])) =>
       \A i \in 1..Len(inbox) :
          FetchedBy(i) => \A k \in (i + 1)..Len(inbox) : inbox[k].seen]_vars

\* C27 (as claimed): a poll that reports a template update as failed leaves
\* the template file as it was before the poll.
C27_FailedLeavesTemplate ==
  [][(poll.step = "poll" /\ poll'.result.action \in UpdateFailed) =>
       template' = template]_vars
====
